---- MODULE Spec2Model ----
(***************************************************************************)
(* A model of dco-check (src/dco_check/dco_check.py): the run of main()    *)
(* from option resolution to the exit code, and the validation of commit   *)
(* records by process_commits / check_infractions.                         *)
(*                                                                         *)
(* Python strings that the program parses are sequences of one-character   *)
(* strings (<<"a", "@", "b">>); the record separator 0x1e is the symbol    *)
(* "RS".  Values the program only passes around (environment values,       *)
(* commit hashes of the range) are plain TLA+ strings.                     *)
(***************************************************************************)
EXTENDS Naturals, Sequences, FiniteSets, TLC

VARIABLES
    pc,               \* position of the run
    args,             \* the parsed command line (argparse.Namespace)
    env,              \* environment: the DCO_CHECK_* settings, plus each CI variable once read
    calls,            \* history: the commands and requests issued, with their outcomes
    options,          \* the global Options object (the logger copies quiet and verbose)
    commit_retriever, \* main: the selected retriever
    commit_range,     \* main: result of get_commit_range
    commits,          \* main / process_commits: the list of CommitInfo
    i,                \* process_commits: index of the commit last taken by the loop
    infractions,      \* process_commits: the infraction map being built
    result,           \* exit code (return value of main / check_infractions)
    raised,           \* uncaught exception that ended the run, or "no"
    steps,            \* history: the steps main has entered, in order
    stdout            \* TRUE once something was written to standard output

vars == <<pc, args, env, calls, options, commit_retriever, commit_range, commits, i,
          infractions, result, raised, steps, stdout>>

\* ------------------------------------------------------------------ bounds
MaxCommits == 2
MaxBodyLines == 2

\* ------------------------------------------------------------------ values
\* Python's None, for plain values and for character sequences.
None == "None"
NoneS == <<"None">>

DEFAULT_BRANCH == "master"
DEFAULT_REMOTE == "origin"
TRAILER_KEY_SIGNED_OFF_BY ==
    <<"S", "i", "g", "n", "e", "d", "-", "o", "f", "f", "-", "b", "y", ":">>

Whitespace == {" ", "\n", "\t"}

\* ------------------------------------------------------- Python str methods
\* s.startswith(p)
str_startswith(s, p) ==
    /\ Len(s) >= Len(p)
    /\ SubSeq(s, 1, Len(p)) = p

\* s.replace(old, ''): every non-overlapping occurrence, scanning left to right.
RECURSIVE str_remove(_, _)
str_remove(s, old) ==
    IF Len(s) < Len(old) \/ Len(old) = 0 THEN s
    ELSE IF SubSeq(s, 1, Len(old)) = old
         THEN str_remove(SubSeq(s, Len(old) + 1, Len(s)), old)
         ELSE <<s[1]>> \o str_remove(Tail(s), old)

\* s.lstrip(chars), s.rstrip(chars), s.strip(chars) for a set of characters.
RECURSIVE str_lstrip(_, _)
str_lstrip(s, chars) ==
    IF Len(s) > 0 /\ s[1] \in chars THEN str_lstrip(Tail(s), chars) ELSE s

RECURSIVE str_rstrip(_, _)
str_rstrip(s, chars) ==
    IF Len(s) > 0 /\ s[Len(s)] \in chars
    THEN str_rstrip(SubSeq(s, 1, Len(s) - 1), chars)
    ELSE s

str_strip(s, chars) == str_rstrip(str_lstrip(s, chars), chars)

\* s.split(sep) for a one-character separator: always at least one piece.
RECURSIVE str_split(_, _)
str_split(s, sep) ==
    IF \A k \in 1..Len(s) : s[k] # sep THEN <<s>>
    ELSE LET k == CHOOSE k \in 1..Len(s) :
                      s[k] = sep /\ \A j \in 1..(k - 1) : s[j] # sep
         IN <<SubSeq(s, 1, k - 1)>> \o str_split(SubSeq(s, k + 1, Len(s)), sep)

\* ------------------------------------------------------------ is_valid_email
\* re.match(r'^\S+@\S+\.\S+', email): only a prefix has to match.  With W the
\* longest whitespace-free prefix, some '@' of W has a character before it and
\* some later '.' of W has a character between them and a character after it.
NonSpacePrefixLen(s) ==
    IF \A k \in 1..Len(s) : s[k] \notin Whitespace THEN Len(s)
    ELSE (CHOOSE k \in 1..Len(s) :
              s[k] \in Whitespace /\ \A j \in 1..(k - 1) : s[j] \notin Whitespace) - 1

is_valid_email(email) ==
    LET m == NonSpacePrefixLen(email)
    IN \E p \in 2..m : \E q \in (p + 2)..(m - 1) :
           email[p] = "@" /\ email[q] = "."

\* -------------------------------------------------- extract_name_and_email
\* re.search('<(.*)>', s): from the first '<' to the last '>' (greedy).
\* re.search('(.*) <', s): from the start to the last " <" (greedy).
HasChar(s, c) == \E k \in 1..Len(s) : s[k] = c
FirstIndex(s, c) == CHOOSE k \in 1..Len(s) : s[k] = c /\ \A j \in 1..(k - 1) : s[j] # c
LastIndex(s, c) == CHOOSE k \in 1..Len(s) : s[k] = c /\ \A j \in (k + 1)..Len(s) : s[j] # c
SpaceLtAt(s, k) == k < Len(s) /\ s[k] = " " /\ s[k + 1] = "<"

\* (A faulty version whose email stops at the first '>' comes first.)
extract_name_and_email_first_gt(name_and_email) ==
    LET s == name_and_email
        lt == FirstIndex(s, "<")
        email_found == /\ HasChar(s, "<")
                       /\ \E k \in (lt + 1)..Len(s) : s[k] = ">"
        gt == CHOOSE k \in (lt + 1)..Len(s) :
                  s[k] = ">" /\ \A j \in (lt + 1)..(k - 1) : s[j] # ">"
        name_found == \E k \in 1..Len(s) : SpaceLtAt(s, k)
        name_end == CHOOSE k \in 1..Len(s) :
                        SpaceLtAt(s, k) /\ \A j \in (k + 1)..Len(s) : ~SpaceLtAt(s, j)
    IN IF ~email_found THEN NoneS
       ELSE IF ~name_found THEN NoneS
       ELSE <<SubSeq(s, 1, name_end - 1), SubSeq(s, lt + 1, gt - 1)>>

extract_name_and_email(name_and_email) ==
    LET s == name_and_email
        email_found == /\ HasChar(s, "<")
                       /\ HasChar(s, ">")
                       /\ FirstIndex(s, "<") < LastIndex(s, ">")
        name_found == \E k \in 1..Len(s) : SpaceLtAt(s, k)
        name_end == CHOOSE k \in 1..Len(s) :
                        SpaceLtAt(s, k) /\ \A j \in (k + 1)..Len(s) : ~SpaceLtAt(s, j)
    IN IF ~email_found THEN NoneS
       ELSE IF ~name_found THEN NoneS
       ELSE <<SubSeq(s, 1, name_end - 1),
              SubSeq(s, FirstIndex(s, "<") + 1, LastIndex(s, ">") - 1)>>

\* ----------------------------------------------------------- process_commits
CommitInfo(commit_hash, title, body, author_name, author_email, is_merge_commit) ==
    [hash |-> commit_hash, title |-> title, body |-> body,
     author_name |-> author_name, author_email |-> author_email,
     is_merge_commit |-> is_merge_commit]

\* infractions[h].append(x) on a defaultdict(list).  (A faulty version that
\* inserts at the front comes first.)
RecordFirst(inf, h, x) ==
    IF h \in DOMAIN inf THEN [inf EXCEPT ![h] = <<x>> \o @]
    ELSE (h :> <<x>>) @@ inf

Record(inf, h, x) ==
    IF h \in DOMAIN inf THEN [inf EXCEPT ![h] = Append(@, x)]
    ELSE (h :> <<x>>) @@ inf

\* The merge-commit skip of the loop head.
SkipCommit(commit, check_merge_commits) ==
    commit.is_merge_commit /\ ~check_merge_commits

\* The author check: any(d is None for d in [author_name, author_email]).
\* (A faulty version that never finds the author missing comes first.)
AuthorMissingNever(commit) == FALSE

AuthorMissing(commit) ==
    commit.author_name = NoneS \/ commit.author_email = NoneS

\* The list comprehension that extracts the sign-off texts of a body.
\* (A faulty version that leaves the key in the text comes first.)
SignOffsKeepKey(body) ==
    SelectSeq(body, LAMBDA l : str_startswith(l, TRAILER_KEY_SIGNED_OFF_BY))

SignOffs(body) ==
    LET lines == SelectSeq(body, LAMBDA l : str_startswith(l, TRAILER_KEY_SIGNED_OFF_BY))
    IN [k \in 1..Len(lines) |->
           str_strip(str_remove(lines[k], TRAILER_KEY_SIGNED_OFF_BY), {" "})]

\* The check of line 933 that ends the commit's evaluation when no sign-off
\* was extracted.
\* (A faulty version that never ends it comes first.)
NoSignOffNever(sign_offs) == FALSE

NoSignOff(sign_offs) == Len(sign_offs) = 0

\* Lines 942-945, for the parsed sign-off r: an invalid email is recorded, a
\* valid pair joins sign_offs_name_email.
\* (A faulty version that also counts an invalid pair comes first.)
WithSignOffCounted(acc, h, r) ==
    IF ~is_valid_email(r[2])
    THEN [acc EXCEPT !.inf = Record(@, h, <<"invalid email", r[2]>>),
                     !.cands = Append(@, r)]
    ELSE [acc EXCEPT !.cands = Append(@, r)]

WithSignOff(acc, h, r) ==
    IF ~is_valid_email(r[2])
    THEN [acc EXCEPT !.inf = Record(@, h, <<"invalid email", r[2]>>)]
    ELSE [acc EXCEPT !.cands = Append(@, r)]

\* The loop over the sign-offs.  acc = [inf, cands, raised]: the map, the
\* list sign_offs_name_email, and the exception of the tuple unpacking of a
\* None result of extract_name_and_email.
RECURSIVE SignOffLoop(_, _, _, _)
SignOffLoop(sign_offs, k, h, acc) ==
    IF k > Len(sign_offs) THEN acc
    ELSE LET r == extract_name_and_email(sign_offs[k])
         IN IF r = NoneS THEN [acc EXCEPT !.raised = "TypeError"]
            ELSE SignOffLoop(sign_offs, k + 1, h, WithSignOff(acc, h, r))

InSeq(x, s) == \E k \in 1..Len(s) : s[k] = x

\* One iteration of the loop of process_commits on `commit`, from the map
\* `inf`: the map after it, the exception it raised ("no" when none) and
\* whether verbose_print was reached.
ProcessCommit(commit, check_merge_commits, inf) ==
    IF SkipCommit(commit, check_merge_commits)
    THEN [inf |-> inf, raised |-> "no", printed |-> TRUE]
    ELSE IF commit.author_name = NoneS
    THEN \* '\t' + commit.author_name, evaluated before verbose_print is called
         [inf |-> inf, raised |-> "TypeError", printed |-> TRUE]
    ELSE IF AuthorMissing(commit)
    THEN [inf |-> Record(inf, commit.hash,
                         <<"could not extract author data for commit", commit.hash>>),
          raised |-> "no", printed |-> TRUE]
    ELSE LET sign_offs == SignOffs(commit.body)
         IN IF NoSignOff(sign_offs)
            THEN [inf |-> Record(inf, commit.hash, <<"no sign-off found">>),
                  raised |-> "no", printed |-> TRUE]
            ELSE LET acc == SignOffLoop(sign_offs, 1, commit.hash,
                                [inf |-> inf, cands |-> <<>>, raised |-> "no"])
                     author == <<commit.author_name, commit.author_email>>
                 IN IF acc.raised # "no"
                    THEN [inf |-> acc.inf, raised |-> acc.raised, printed |-> TRUE]
                    ELSE IF ~InSeq(author, acc.cands)
                    THEN [inf |-> Record(acc.inf, commit.hash,
                                     <<"sign-off not found for commit author",
                                       commit.author_name, commit.author_email,
                                       sign_offs>>),
                          raised |-> "no", printed |-> TRUE]
                    ELSE [inf |-> acc.inf, raised |-> "no", printed |-> TRUE]

\* ---------------------------------------------------------- check_infractions
\* check_infractions: len(infractions) counts the keys.  (A faulty version that
\* looks for a non-empty list comes first.)
check_infractions_nonempty_lists(inf) ==
    IF \E h \in DOMAIN inf : Len(inf[h]) > 0 THEN 1 ELSE 0

check_infractions(inf) ==
    IF Cardinality(DOMAIN inf) > 0 THEN 1 ELSE 0

\* ------------------------------------------------------------------ options
\* wrap_default_value / is_default_value: a value still wrapped is the parser's
\* default, an unwrapped one was given on the command line.
wrap_default_value(value) == [is_default |-> TRUE, value |-> value]
Explicit(value) == [is_default |-> FALSE, value |-> value]
is_default_value(v) == v.is_default

\* get_env_var(env_var, default=...): the value, or the default when unset.
\* (A faulty version that forgets the default comes first.)
get_env_var_no_default(e, env_var, default) == e[env_var]

get_env_var(e, env_var, default) ==
    IF e[env_var] = None THEN default ELSE e[env_var]

\* real_cast(value, bool) on an environment string.
BoolTrueStrings == {"1", "true", "True", "y", "Y", "yes", "Yes"}
real_cast_bool(value) == value \in BoolTrueStrings

\* environment_value_if_default_param for a flag: a wrapped default that meets no
\* environment value is an object equal to none of the accepted values (False);
\* an explicit True equals 1 (True).
env_or_param_bool(e, param, env_var) ==
    IF is_default_value(param)
    THEN IF e[env_var] = None THEN FALSE ELSE real_cast_bool(e[env_var])
    ELSE param.value

\* environment_value_if_default_param for a string: str(value).
\* (A faulty version that lets the environment override the command line
\* comes first.)
env_or_param_str_env_first(e, param, env_var) == get_env_var(e, env_var, param.value)

env_or_param_str(e, param, env_var) ==
    IF is_default_value(param)
    THEN get_env_var(e, env_var, param.value)
    ELSE param.value

\* Options.set_options followed by Options.apply_env_vars.
apply_env_vars(a, e) ==
    [check_merge_commits |->
         env_or_param_bool(e, a.check_merge_commits, "DCO_CHECK_CHECK_MERGE_COMMITS"),
     default_branch |-> env_or_param_str(e, a.default_branch, "DCO_CHECK_DEFAULT_BRANCH"),
     default_remote |-> env_or_param_str(e, a.default_remote, "DCO_CHECK_DEFAULT_REMOTE"),
     quiet |-> env_or_param_bool(e, a.quiet, "DCO_CHECK_QUIET"),
     verbose |-> env_or_param_bool(e, a.verbose, "DCO_CHECK_VERBOSE")]

\* Options.__init__: parser.get_default('m') names no destination and yields
\* None for every field; the flags are rendered FALSE (None is falsy and nothing
\* reads them before set_options).
InitialOptions ==
    [check_merge_commits |-> FALSE, default_branch |-> None, default_remote |-> None,
     quiet |-> FALSE, verbose |-> FALSE]

DcoEnvNames == {"DCO_CHECK_CHECK_MERGE_COMMITS", "DCO_CHECK_DEFAULT_BRANCH",
                "DCO_CHECK_DEFAULT_REMOTE", "DCO_CHECK_QUIET", "DCO_CHECK_VERBOSE"}

\* main, lines 987-990: parse_args, set_options, apply_env_vars, logger.set_options.
\* -q together with -v is refused by argparse (SystemExit 2); quiet and verbose
\* both true after the environment is applied raises ValueError.
SetOptions ==
    /\ pc = "start"
    /\ IF ~is_default_value(args.quiet) /\ ~is_default_value(args.verbose)
       THEN /\ pc' = "exit"
            /\ raised' = "SystemExit"
            /\ result' = 2
            /\ UNCHANGED options
       ELSE LET o == apply_env_vars(args, env)
            IN /\ options' = o
               /\ IF o.quiet /\ o.verbose
                  THEN pc' = "raised" /\ raised' = "ValueError" /\ result' = 1
                  ELSE pc' = "select" /\ UNCHANGED <<raised, result>>
    /\ UNCHANGED <<args, env, calls, commit_retriever, commit_range, commits, i,
                   infractions, steps, stdout>>

\* ---------------------------------------------------------------- retrievers
\* main, lines 994-1001: the retriever classes in detection order, by name().
\* (A faulty order, CircleCI tried before AppVeyor, comes first.)
retrievers_circle_before_appveyor ==
    <<"GitLab", "GitHub CI", "Azure Pipelines", "CircleCI", "AppVeyor", "git (default)">>

retrievers ==
    <<"GitLab", "GitHub CI", "Azure Pipelines", "AppVeyor", "CircleCI", "git (default)">>

\* The marker variable each applies() reads (GitRetriever reads none).
Marker(r) ==
    CASE r = "GitLab" -> "GITLAB_CI"
      [] r = "GitHub CI" -> "GITHUB_ACTIONS"
      [] r = "Azure Pipelines" -> "TF_BUILD"
      [] r = "AppVeyor" -> "APPVEYOR"
      [] r = "CircleCI" -> "CIRCLECI"
      [] OTHER -> None

MarkerNames == {"GITLAB_CI", "GITHUB_ACTIONS", "TF_BUILD", "APPVEYOR", "CIRCLECI"}
MarkerValues == {None, "true", "false"}

\* <Retriever>.applies() in environment e.
applies(r, e) ==
    CASE r = "git (default)" -> TRUE
      [] r = "GitHub CI" -> e["GITHUB_ACTIONS"] = "true"
      [] OTHER -> e[Marker(r)] # None

\* A retriever object: its class, by name(), and the fields GitHubRetriever
\* sets in get_commit_range.
Retriever(name) == [name |-> name, github_token |-> None, event_payload |-> [none |-> TRUE]]

\* The detection loop of main: the index of the first retriever that applies,
\* 0 when the list is exhausted (commit_retriever stays None).
RECURSIVE DetectFrom(_, _)
DetectFrom(k, e) ==
    IF k > Len(retrievers) THEN 0
    ELSE IF applies(retrievers[k], e) THEN k
    ELSE DetectFrom(k + 1, e)

\* The markers the loop has read when it stops at index k (all of them for 0).
MarkersRead(k) ==
    {Marker(retrievers[j]) : j \in 1..(IF k = 0 THEN Len(retrievers) ELSE k)} \ {None}

\* main, lines 992-1008: detection, then logger.print('Detected:', name()),
\* which raises AttributeError on a None retriever.
SelectRetriever ==
    /\ pc = "select"
    /\ \E m \in [MarkerNames -> MarkerValues] :
         LET k == DetectFrom(1, m)
             read == [n \in MarkersRead(k) |-> m[n]]
         IN /\ env' = read @@ env
            /\ steps' = Append(steps, <<"select", IF k = 0 THEN "None" ELSE "value",
                                        IF k = 0 THEN None ELSE retrievers[k]>>)
            /\ IF k = 0
               THEN /\ commit_retriever' = Retriever(None)
                    /\ pc' = "raised"
                    /\ raised' = "AttributeError"
                    /\ result' = 1
                    /\ UNCHANGED stdout
               ELSE /\ commit_retriever' = Retriever(retrievers[k])
                    /\ pc' = "range"
                    /\ stdout' = (stdout \/ ~options.quiet)
                    /\ UNCHANGED <<raised, result>>
    /\ UNCHANGED <<args, calls, options, commit_range, commits, i, infractions>>

\* ---------------------------------------------------------- get_commit_range
\* The outcome of run(command): a Popen that cannot spawn raises (ENOENT is
\* not a CalledProcessError), a non-zero exit gives None after logger.print,
\* a zero exit gives the trimmed output.
ENOENT == "ENOENT"
Hashes == {"h1", "h2"}
RunHash == {ENOENT, None} \cup Hashes
RunFetch == {ENOENT, None, ""}

NoPayload == [none |-> TRUE]
NoFile == [missing |-> TRUE]
NoReads == {}

\* What a get_commit_range call did: its return value (NoneS for None), the
\* environment variables it read, the commands it ran, whether it called
\* logger.print / logger.verbose_print, and the exception that ended it.
Res(range, reads, cs, printed, vprinted, exc) ==
    [range |-> range, reads |-> reads, calls |-> cs, printed |-> printed,
     vprinted |-> vprinted, raised |-> exc, token |-> None, payload |-> NoPayload]

Call(cmd, a, out) == [cmd |-> cmd, args |-> a, out |-> out]

\* GitRetriever.get_commit_range
git_get_commit_range(w) ==
    LET c1 == Call("merge-base", <<options.default_branch>>, w.merge_base)
        c2 == Call("rev-parse", <<"HEAD">>, w.rev_parse)
    IN IF w.merge_base = ENOENT
       THEN Res(NoneS, NoReads, <<c1>>, FALSE, FALSE, "FileNotFoundError")
       ELSE IF w.merge_base = None
       THEN Res(NoneS, NoReads, <<c1>>, TRUE, FALSE, "no")
       ELSE IF w.rev_parse = ENOENT
       THEN Res(NoneS, NoReads, <<c1, c2>>, FALSE, FALSE, "FileNotFoundError")
       ELSE IF w.rev_parse = None
       THEN Res(NoneS, NoReads, <<c1, c2>>, TRUE, FALSE, "no")
       ELSE Res(<<w.merge_base, w.rev_parse>>, NoReads, <<c1, c2>>, FALSE, FALSE, "no")

\* The tail shared by the CI retrievers: fetch the default branch from the
\* remote, then the fork point with <remote>/<default branch>.
ForkPointOffRemote(default_branch, head, w, reads, cs, printed) ==
    LET remote == options.default_remote
        c1 == Call("fetch", <<remote, default_branch>>, w.fetch)
        c2 == Call("merge-base", <<remote, "/", default_branch>>, w.merge_base)
    IN IF w.fetch = ENOENT
       THEN Res(NoneS, reads, cs \o <<c1>>, printed, TRUE, "FileNotFoundError")
       ELSE IF w.fetch = None
       THEN Res(NoneS, reads, cs \o <<c1>>, TRUE, TRUE, "no")
       ELSE IF w.merge_base = ENOENT
       THEN Res(NoneS, reads, cs \o <<c1, c2>>, printed, TRUE, "FileNotFoundError")
       ELSE IF w.merge_base = None
       THEN Res(NoneS, reads, cs \o <<c1, c2>>, TRUE, TRUE, "no")
       ELSE Res(<<w.merge_base, head>>, reads, cs \o <<c1, c2>>, printed, TRUE, "no")

\* GitlabRetriever.get_commit_range
gitlab_get_commit_range(w) ==
    LET e == w.env
        default_branch == get_env_var(e, "CI_DEFAULT_BRANCH", options.default_branch)
        head == e["CI_COMMIT_SHA"]
        current_branch == e["CI_COMMIT_BRANCH"]
        base == e["CI_COMMIT_BEFORE_SHA"]
        r2 == {"CI_DEFAULT_BRANCH", "CI_COMMIT_SHA"}
        r3 == r2 \cup {"CI_COMMIT_BRANCH"}
        r4 == r3 \cup {"CI_COMMIT_BEFORE_SHA"}
        p3 == e["CI_DEFAULT_BRANCH"] = None \/ current_branch = None
    IN IF head = None THEN Res(NoneS, r2, <<>>, TRUE, FALSE, "no")
       ELSE IF current_branch # None /\ current_branch = default_branch
       THEN IF base = None THEN Res(NoneS, r4, <<>>, TRUE, TRUE, "no")
            ELSE Res(<<base, head>>, r4, <<>>, p3, TRUE, "no")
       ELSE ForkPointOffRemote(default_branch, head, w, r3, <<>>, p3)

\* CircleRetriever.get_commit_range
circle_get_commit_range(w) ==
    LET e == w.env
        head == e["CIRCLE_SHA1"]
    IN IF head = None THEN Res(NoneS, {"CIRCLE_SHA1"}, <<>>, TRUE, FALSE, "no")
       ELSE ForkPointOffRemote(options.default_branch, head, w,
                {"CIRCLE_SHA1", "CIRCLE_BRANCH"}, <<>>, e["CIRCLE_BRANCH"] = None)

\* AzurePipelinesRetriever.get_commit_range
azure_get_commit_range(w) ==
    LET e == w.env
        head == e["BUILD_SOURCEVERSION"]
    IN IF head = None THEN Res(NoneS, {"BUILD_SOURCEVERSION"}, <<>>, TRUE, FALSE, "no")
       ELSE ForkPointOffRemote(options.default_branch, head, w,
                {"BUILD_SOURCEVERSION", "BUILD_SOURCEBRANCHNAME"}, <<>>,
                e["BUILD_SOURCEBRANCHNAME"] = None)

\* AppVeyorRetriever.get_commit_range: an unset head variable falls back to
\* get_head_commit_hash(), whose None is not checked.
appveyor_get_commit_range(w) ==
    LET e == w.env
        env_head == e["APPVEYOR_PULL_REQUEST_HEAD_COMMIT"]
        c0 == Call("rev-parse", <<"HEAD">>, w.rev_parse)
        cs == IF env_head = None THEN <<c0>> ELSE <<>>
        head == IF env_head = None THEN w.rev_parse ELSE env_head
        current_branch == e["APPVEYOR_PULL_REQUEST_HEAD_REPO_BRANCH"]
        base == e["CI_COMMIT_BEFORE_SHA"]
        r1 == {"APPVEYOR_PULL_REQUEST_HEAD_COMMIT"}
        r2 == r1 \cup {"APPVEYOR_PULL_REQUEST_HEAD_REPO_BRANCH"}
        r3 == r2 \cup {"CI_COMMIT_BEFORE_SHA"}
        p2 == env_head = None \/ current_branch = None
    IN IF env_head = None /\ w.rev_parse = ENOENT
       THEN Res(NoneS, r1, cs, TRUE, FALSE, "FileNotFoundError")
       ELSE IF current_branch # None /\ current_branch = options.default_branch
       THEN IF base = None THEN Res(NoneS, r3, cs, TRUE, TRUE, "no")
            ELSE Res(<<base, head>>, r3, cs, p2, TRUE, "no")
       ELSE ForkPointOffRemote(options.default_branch, head, w, r2, cs, p2)

\* GitHubRetriever.get_commit_range.  The event payload is the JSON document
\* of the file GITHUB_EVENT_PATH names; a key it lacks raises KeyError, an
\* empty `commits` raises IndexError, a file that cannot be opened raises.
HasKey(d, k) == k \in DOMAIN d

github_get_commit_range(w) ==
    LET e == w.env
        token == e["GITHUB_TOKEN"]
        path == e["GITHUB_EVENT_PATH"]
        event_name == e["GITHUB_EVENT_NAME"]
        payload == w.file
        r1 == {"GITHUB_TOKEN"}
        r2 == r1 \cup {"GITHUB_EVENT_PATH"}
        r3 == r2 \cup {"GITHUB_EVENT_NAME"}
        missing == HasKey(w.file, "missing")
        open == Call("open", <<path>>, IF missing THEN ENOENT ELSE "json")
        With(r) == [r EXCEPT !.token = token,
                             !.payload = IF missing THEN NoPayload ELSE payload]
    IN IF token = None THEN Res(NoneS, r1, <<>>, TRUE, FALSE, "no")
       ELSE IF path = None THEN With(Res(NoneS, r2, <<>>, TRUE, FALSE, "no"))
       ELSE IF missing
       THEN With(Res(NoneS, r2, <<open>>, FALSE, FALSE, "FileNotFoundError"))
       ELSE IF event_name = None THEN With(Res(NoneS, r3, <<open>>, TRUE, FALSE, "no"))
       ELSE IF event_name = "pull_request"
       THEN IF ~HasKey(payload, "pull_request")
            THEN With(Res(NoneS, r3, <<open>>, FALSE, FALSE, "KeyError"))
            ELSE With(Res(<<payload.pull_request.base.sha, payload.pull_request.head.sha>>,
                          r3, <<open>>, FALSE, TRUE, "no"))
       ELSE IF event_name = "push"
       THEN IF ~HasKey(payload, "created")
            THEN With(Res(NoneS, r3, <<open>>, FALSE, FALSE, "KeyError"))
            ELSE IF payload.created /\ Len(payload.commits) = 0
            THEN With(Res(NoneS, r3, <<open>>, FALSE, FALSE, "IndexError"))
            ELSE With(Res(<<IF payload.created THEN payload.commits[1].id \o "^"
                                               ELSE payload.before,
                            payload.head_commit.id>>, r3, <<open>>, FALSE, FALSE, "no"))
       ELSE With(Res(NoneS, r3, <<open>>, TRUE, FALSE, "no"))

get_commit_range(name, w) ==
    CASE name = "GitLab" -> gitlab_get_commit_range(w)
      [] name = "GitHub CI" -> github_get_commit_range(w)
      [] name = "Azure Pipelines" -> azure_get_commit_range(w)
      [] name = "AppVeyor" -> appveyor_get_commit_range(w)
      [] name = "CircleCI" -> circle_get_commit_range(w)
      [] OTHER -> git_get_commit_range(w)

\* The inputs a get_commit_range call can meet: the values of the variables
\* it may read, the event payload file, and the outcomes of its commands.
OptHash == {None} \cup Hashes
OptBranch == {None, "master", "dev"}
COMPARE_URL == "/repos/o/r/compare/{base}...{head}"

PullRequestPayloads ==
    {[pull_request |-> [base |-> [sha |-> b, ref |-> "master"],
                        head |-> [sha |-> h, ref |-> "dev"]],
      repository |-> [compare_url |-> COMPARE_URL]] : b \in {"h1"}, h \in Hashes}

PushPayloads ==
    {[created |-> c, commits |-> cs, before |-> "h1", head_commit |-> [id |-> h],
      repository |-> [compare_url |-> COMPARE_URL]] :
        c \in BOOLEAN, cs \in {<<>>, <<[id |-> "h2"]>>}, h \in Hashes}

EnvDomain(name) ==
    CASE name = "GitLab" ->
             \* CI_MERGE_REQUEST_TARGET_BRANCH_SHA is set by GitLab in merge
             \* request pipelines (where CI_COMMIT_BRANCH is unset); the
             \* program does not read it.
             [CI_DEFAULT_BRANCH : {None, "dev"}, CI_COMMIT_SHA : {None, "h1"},
              CI_COMMIT_BRANCH : OptBranch, CI_COMMIT_BEFORE_SHA : OptHash,
              CI_MERGE_REQUEST_TARGET_BRANCH_SHA : {None, "h2"}]
      [] name = "GitHub CI" ->
             [GITHUB_TOKEN : {None, "tok"}, GITHUB_EVENT_PATH : {None, "event.json"},
              GITHUB_EVENT_NAME : {None, "pull_request", "push", "release"}]
      [] name = "Azure Pipelines" ->
             \* SYSTEM_PULLREQUEST_TARGETBRANCH (Azure) and APPVEYOR_REPO_BRANCH
             \* (AppVeyor) name the target branch of a pull request build;
             \* the program does not read them.
             [BUILD_SOURCEVERSION : {None, "h1"}, BUILD_SOURCEBRANCHNAME : {None, "dev"},
              SYSTEM_PULLREQUEST_TARGETBRANCH : {None, "release"}]
      [] name = "AppVeyor" ->
             [APPVEYOR_PULL_REQUEST_HEAD_COMMIT : {None, "h1"},
              APPVEYOR_PULL_REQUEST_HEAD_REPO_BRANCH : OptBranch,
              CI_COMMIT_BEFORE_SHA : OptHash,
              APPVEYOR_REPO_BRANCH : {"master", "release"}]
      [] name = "CircleCI" ->
             [CIRCLE_SHA1 : {None, "h1"}, CIRCLE_BRANCH : {None, "dev"}]
      [] OTHER -> {[NOTHING |-> None]}

RangeWorld(name) ==
    {[env |-> e, file |-> f, fetch |-> ft, merge_base |-> mb, rev_parse |-> rp] :
        e \in EnvDomain(name),
        f \in IF name = "GitHub CI"
              THEN {NoFile} \cup PullRequestPayloads \cup PushPayloads ELSE {NoFile},
        ft \in IF name \in {"GitHub CI", "git (default)"} THEN {None} ELSE RunFetch,
        mb \in IF name = "GitHub CI" THEN {None} ELSE RunHash,
        rp \in IF name \in {"AppVeyor", "git (default)"} THEN RunHash ELSE {None}}

\* os.environ does not change during a run: what is read agrees with what
\* is already known of the environment.
SameEnvironment(e1, e2) == \A n \in DOMAIN e1 \cap DOMAIN e2 : e1[n] = e2[n]

\* main, line 1012: `if commit_range is None`.
commit_range_is_None(range) == range = NoneS

\* main, line 1018: `if commit_hash_base == commit_hash_head`.
\* (A faulty version without the short cut comes first.)
base_equals_head_never(commit_hash_base, commit_hash_head) == FALSE

base_equals_head(commit_hash_base, commit_hash_head) ==
    commit_hash_base = commit_hash_head

\* main, lines 1010-1023: get_commit_range, the None check, the base == head
\* short cut.
GetCommitRange ==
    /\ pc = "range"
    /\ \E w \in {v \in RangeWorld(commit_retriever.name) : SameEnvironment(v.env, env)} :
         LET r == get_commit_range(commit_retriever.name, w)
             out == (stdout \/ (r.printed /\ ~options.quiet)
                            \/ (r.vprinted /\ options.verbose))
         IN /\ env' = [n \in r.reads |-> w.env[n]] @@ env
            /\ calls' = calls \o r.calls
            /\ commit_retriever' = [commit_retriever EXCEPT !.github_token = r.token,
                                                            !.event_payload = r.payload]
            /\ commit_range' = r.range
            /\ steps' = Append(steps, <<"get_commit_range",
                            IF r.raised # "no" THEN "raised"
                            ELSE IF r.range = NoneS THEN "None" ELSE "value",
                            commit_retriever.name>>)
            /\ IF r.raised # "no"
               THEN /\ pc' = "raised" /\ raised' = r.raised /\ result' = 1
                    /\ stdout' = out
               ELSE IF commit_range_is_None(r.range)
               THEN /\ pc' = "done" /\ result' = 1
                    /\ stdout' = out
                    /\ UNCHANGED raised
               ELSE IF base_equals_head(r.range[1], r.range[2])
               THEN /\ pc' = "done" /\ result' = 0
                    /\ stdout' = (out \/ ~options.quiet)
                    /\ UNCHANGED raised
               ELSE /\ pc' = "commits"
                    /\ stdout' = (out \/ ~options.quiet)
                    /\ UNCHANGED <<raised, result>>
    /\ UNCHANGED <<args, options, commits, i, infractions>>

\* --------------------------------------------------------------- get_commits
\* Character sequences the sample commits are made of.
Chr_a == <<"a">>
Chr_b == <<"b">>
EmailValid == <<"a", "@", "b", ".", "c">>
EmailInvalid == <<"a", "@", "b">>
SignOffLine(name, email) ==
    TRAILER_KEY_SIGNED_OFF_BY \o <<" ">> \o name \o <<" ", "<">> \o email \o <<">">>
SignOffNoEmail(name) == TRAILER_KEY_SIGNED_OFF_BY \o <<" ">> \o name

\* Commit hashes are unique: the k-th commit of a list has hash HashAt(k).
Digits == <<"1", "2", "3", "4", "5">>
HashAt(k) == <<Digits[k]>>

RECURSIVE str_join(_, _)
str_join(lines, sep) ==
    IF Len(lines) = 0 THEN <<>>
    ELSE IF Len(lines) = 1 THEN lines[1]
    ELSE lines[1] \o <<sep>> \o str_join(Tail(lines), sep)

\* What `git log --pretty=%H%n%an <%ae>%n%s%n%-b%x1e` writes for one commit:
\* %-b drops the line feeds before an empty body.
FormatCommit(h, c) ==
    LET top == h \o <<"\n">> \o c.an \o <<" ", "<">> \o c.ae \o <<">", "\n">> \o c.subject
    IN (IF Len(c.body) = 0 THEN str_rstrip(top, {"\n"})
        ELSE top \o <<"\n">> \o str_join(c.body, "\n") \o <<"\n">>) \o <<"RS">>

\* The output of git log for the commits `repo` of the range; --no-merges
\* leaves the merge commits out.
RECURSIVE FormatLog(_, _, _)
FormatLog(repo, k, no_merges) ==
    IF k > Len(repo) THEN <<>>
    ELSE LET rest == FormatLog(repo, k + 1, no_merges)
         IN IF no_merges /\ repo[k].merge THEN rest
            ELSE FormatCommit(HashAt(k), repo[k]) \o <<"\n">> \o rest

\* get_commits_data: the log command; --no-merges iff ignore_merge_commits.
get_commits_data_command(base, head, ignore_merge_commits) ==
    <<base, head>> \o (IF ignore_merge_commits THEN <<"--no-merges">> ELSE <<>>)

\* run() on a zero exit: output.rstrip().decode().strip('\n')
run_output(raw) == str_strip(str_rstrip(raw, Whitespace), {"\n"})

\* split_commits_data(commits_data, '\x1e').  (A faulty version without the
\* filter of the empty elements comes first.)
split_commits_data_keep_empty(commits_data) ==
    LET chunks == str_split(str_strip(commits_data, {"\n"}), "RS")
    IN [k \in 1..Len(chunks) |-> str_strip(chunks[k], {"\n"})]

split_commits_data(commits_data) ==
    LET chunks == str_split(str_strip(commits_data, {"\n"}), "RS")
        stripped == [k \in 1..Len(chunks) |-> str_strip(chunks[k], {"\n"})]
    IN SelectSeq(stripped, LAMBDA c : Len(c) > 0)

\* The body of the loop of GitRetriever.get_commits on one chunk: the record,
\* or the IndexError of a chunk with fewer than three lines.
ParseCommit(commit_data) ==
    LET commit_lines == str_split(commit_data, "\n")
        author_result == extract_name_and_email(commit_lines[2])
    IN IF Len(commit_lines) < 3 THEN [raised |-> "IndexError"]
       ELSE [raised |-> "no",
             commit |-> CommitInfo(commit_lines[1], commit_lines[3],
                            SubSeq(commit_lines, 4, Len(commit_lines)),
                            IF author_result = NoneS THEN NoneS ELSE author_result[1],
                            IF author_result = NoneS THEN NoneS ELSE author_result[2],
                            FALSE)]

\* What a get_commits call did: the list (none = TRUE for a None return),
\* the commands or requests, the prints and the exception.
Got(list, none, cs, printed, direct, exc) ==
    [commits |-> list, none |-> none, calls |-> cs, printed |-> printed,
     direct |-> direct, raised |-> exc]

\* GitRetriever.get_commits(base, head, check_merge_commits); w.log is the
\* outcome of the log command: ENOENT, "fail" or "ok".
git_get_commits(base, head, check_merge_commits, w) ==
    LET ignore_merge_commits == ~check_merge_commits
        raw == FormatLog(w.repo, 1, ignore_merge_commits)
        c == Call("log", get_commits_data_command(base, head, ignore_merge_commits), w.log)
        commits_data == run_output(raw)
        individual_commits == split_commits_data(commits_data)
        parsed == [k \in 1..Len(individual_commits) |-> ParseCommit(individual_commits[k])]
    IN IF w.log = ENOENT THEN Got(<<>>, FALSE, <<c>>, FALSE, FALSE, "FileNotFoundError")
       ELSE IF w.log = "fail"
       THEN \* split_commits_data(None): None has no strip
            Got(<<>>, FALSE, <<c>>, TRUE, FALSE, "AttributeError")
       ELSE IF \E k \in 1..Len(parsed) : parsed[k].raised # "no"
       THEN Got(<<>>, FALSE, <<c>>, FALSE, FALSE, "IndexError")
       ELSE Got([k \in 1..Len(parsed) |-> parsed[k].commit], FALSE, <<c>>,
                FALSE, FALSE, "no")

\* The body of the loop of GitHubRetriever.get_commits on one commit object.
ParseJsonCommit(commit) ==
    LET message == SelectSeq(str_split(commit.message, "\n"), LAMBDA l : Len(l) > 0)
    IN IF Len(message) = 0 THEN [raised |-> "IndexError"]
       ELSE [raised |-> "no",
             commit |-> CommitInfo(commit.sha, message[1], Tail(message),
                            commit.author_name, commit.author_email,
                            commit.parents > 1)]

\* GitHubRetriever.get_commits: one GET on the compare URL; w.status is the
\* response code, w.json the commits of the response.  On a non-200 response
\* pprint writes the body to standard output before logger.print is called.
github_get_commits(base, head, retriever, w) ==
    LET c == Call("GET", <<retriever.event_payload.repository.compare_url, base, head>>,
                  w.status)
        parsed == [k \in 1..Len(w.json) |-> ParseJsonCommit(w.json[k])]
    IN IF w.status # 200 THEN Got(<<>>, TRUE, <<c>>, TRUE, TRUE, "no")
       ELSE IF \E k \in 1..Len(parsed) : parsed[k].raised # "no"
       THEN Got(<<>>, FALSE, <<c>>, FALSE, FALSE, "IndexError")
       ELSE Got([k \in 1..Len(parsed) |-> parsed[k].commit], FALSE, <<c>>,
                FALSE, FALSE, "no")

get_commits(retriever, base, head, check_merge_commits, w) ==
    IF retriever.name = "GitHub CI" THEN github_get_commits(base, head, retriever, w)
    ELSE git_get_commits(base, head, check_merge_commits, w)

\* The commits a range can hold (author, subject, body, merge flag) ...
RepoCommit(an, ae, subject, body, merge) ==
    [an |-> an, ae |-> ae, subject |-> subject, body |-> body, merge |-> merge]

SampleRepoCommits ==
    {RepoCommit(Chr_a, EmailValid, <<"t">>, <<SignOffLine(Chr_a, EmailValid)>>, FALSE),
     RepoCommit(Chr_a, EmailValid, <<"t">>, <<>>, FALSE),
     RepoCommit(Chr_a, EmailValid, <<"t">>, <<>>, TRUE),
     RepoCommit(Chr_a, EmailValid, <<>>, <<>>, FALSE)}

\* ... and the commit objects a compare response can hold.
JsonCommit(message, author_name, author_email, parents) ==
    [message |-> message, author_name |-> author_name, author_email |-> author_email,
     parents |-> parents]

SampleJsonCommits ==
    {JsonCommit(<<"t", "\n", "\n">> \o SignOffLine(Chr_a, EmailValid), Chr_a, EmailValid, 1),
     JsonCommit(<<"t">>, Chr_a, EmailValid, 2),
     JsonCommit(<<>>, Chr_a, EmailValid, 1),
     JsonCommit(<<"t">>, NoneS, NoneS, 1)}

ListsOver(S, n) == UNION {[1..m -> S] : m \in 0..n}

CommitsWorld(name) ==
    {[repo |-> r, log |-> l, status |-> st, json |-> j] :
        r \in IF name = "GitHub CI" THEN {<<>>} ELSE ListsOver(SampleRepoCommits, MaxCommits),
        l \in IF name = "GitHub CI" THEN {"ok"} ELSE {ENOENT, "fail", "ok"},
        st \in IF name = "GitHub CI" THEN {200, 404} ELSE {200},
        j \in IF name = "GitHub CI"
              THEN {[k \in 1..Len(js) |-> [sha |-> HashAt(k)] @@ js[k]] :
                        js \in ListsOver(SampleJsonCommits, MaxCommits)}
              ELSE {<<>>}}

\* main, line 1031: `if commits is None`, on what get_commits returned.
\* (A faulty version without the check comes first.)
commits_is_None_never(g) == FALSE

commits_is_None(g) == g.none

\* main, lines 1025-1032: get_commits and the None check, in the world w.
GetCommitsIn(w) ==
    LET g == get_commits(commit_retriever, commit_range[1], commit_range[2],
                         options.check_merge_commits, w)
    IN /\ calls' = calls \o g.calls
       /\ commits' = g.commits
       /\ stdout' = (stdout \/ g.direct \/ (g.printed /\ ~options.quiet))
       /\ steps' = Append(steps, <<"get_commits",
                       IF g.raised # "no" THEN "raised"
                       ELSE IF g.none THEN "None" ELSE "value",
                       commit_retriever.name>>)
       /\ IF g.raised # "no"
          THEN pc' = "raised" /\ raised' = g.raised /\ result' = 1
          ELSE IF commits_is_None(g)
          THEN pc' = "done" /\ result' = 1 /\ UNCHANGED raised
          ELSE pc' = "process_call" /\ UNCHANGED <<raised, result>>
       /\ UNCHANGED <<args, env, options, commit_retriever, commit_range, i, infractions>>

GetCommits ==
    /\ pc = "commits"
    /\ \E w \in CommitsWorld(commit_retriever.name) : GetCommitsIn(w)

\* process_commits is entered: infractions = defaultdict(list).
ProcessCommitsCall ==
    /\ pc = "process_call"
    /\ pc' = "process"
    /\ i' = 0
    /\ infractions' = <<>>
    /\ steps' = Append(steps, <<"process_commits", "call">>)
    /\ UNCHANGED <<args, env, calls, options, commit_retriever, commit_range, commits,
                   result, raised, stdout>>

\* One iteration of `for commit in commits`.
ProcessCommitStep ==
    /\ pc = "process"
    /\ i < Len(commits)
    /\ LET r == ProcessCommit(commits[i + 1], options.check_merge_commits, infractions)
       IN /\ i' = i + 1
          /\ infractions' = r.inf
          /\ stdout' = (stdout \/ (r.printed /\ options.verbose))
          /\ IF r.raised # "no"
             THEN pc' = "raised" /\ raised' = r.raised /\ result' = 1
             ELSE UNCHANGED <<pc, raised, result>>
    /\ UNCHANGED <<args, env, calls, options, commit_retriever, commit_range, commits,
                   steps>>

\* The loop is exhausted: process_commits returns the map.
ProcessCommitsReturn ==
    /\ pc = "process"
    /\ i = Len(commits)
    /\ pc' = "check"
    /\ UNCHANGED <<args, env, calls, options, commit_retriever, commit_range, commits, i,
                   infractions, result, raised, steps, stdout>>

\* main, lines 1037-1043: check_infractions (which prints the infractions or
\* 'All good!'), the warning on an empty list, the return.
CheckInfractions ==
    /\ pc = "check"
    /\ result' = check_infractions(infractions)
    /\ stdout' = (stdout \/ ~options.quiet)
    /\ steps' = Append(steps, <<"check_infractions", "value">>)
    /\ pc' = "done"
    /\ UNCHANGED <<args, env, calls, options, commit_retriever, commit_range, commits, i,
                   infractions, raised>>

\* ------------------------------------------------------------ specifications
OptionArgs(vs) ==
    [check_merge_commits |-> vs[1], default_branch |-> wrap_default_value(DEFAULT_BRANCH),
     default_remote |-> wrap_default_value(DEFAULT_REMOTE), quiet |-> vs[2],
     verbose |-> vs[3]]

FlagArgs == {wrap_default_value(FALSE), Explicit(TRUE)}
MainArgs ==
    {OptionArgs(<<m, wrap_default_value(FALSE), v>>) : m \in FlagArgs, v \in FlagArgs}
MainDcoEnvs ==
    {[n \in DcoEnvNames |-> IF n = "DCO_CHECK_QUIET" THEN q ELSE None] : q \in {None, "1"}}

\* A run of main from the command line and the environment.
Init ==
    /\ pc = "start"
    /\ args \in MainArgs
    /\ env \in MainDcoEnvs
    /\ calls = <<>>
    /\ options = InitialOptions
    /\ commit_retriever = Retriever(None)
    /\ commit_range = NoneS
    /\ commits = <<>>
    /\ i = 0
    /\ infractions = <<>>
    /\ result = None
    /\ raised = "no"
    /\ steps = <<>>
    /\ stdout = FALSE

Next ==
    \/ SetOptions
    \/ SelectRetriever
    \/ GetCommitRange
    \/ GetCommits
    \/ ProcessCommitsCall
    \/ ProcessCommitStep
    \/ ProcessCommitsReturn
    \/ CheckInfractions

Spec == Init /\ [][Next]_vars

\* process_commits and check_infractions called directly, as the tests do.
\* The commit lists end with any commit of CommitSpace, after commits of
\* SimpleCommits; the maps given to check_infractions include keys with an
\* empty list.
BodyLines ==
    {Chr_a,
     SignOffLine(Chr_a, EmailValid),
     SignOffLine(Chr_b, EmailValid),
     SignOffLine(Chr_a, EmailInvalid),
     SignOffNoEmail(Chr_a)}

CommitSpace ==
    {[title |-> <<"t">>, body |-> b, author_name |-> n, author_email |-> e,
      is_merge_commit |-> m] :
        b \in ListsOver(BodyLines, MaxBodyLines),
        n \in {NoneS, Chr_a}, e \in {NoneS, EmailValid, EmailInvalid}, m \in BOOLEAN}

SimpleCommits ==
    {[title |-> <<"t">>, body |-> b, author_name |-> Chr_a, author_email |-> EmailValid,
      is_merge_commit |-> FALSE] : b \in {<<>>, <<SignOffNoEmail(Chr_a)>>}}

ProcCommitLists ==
    {<<>>} \cup
    {[k \in 1..(Len(p) + 1) |->
         [hash |-> HashAt(k)] @@ (IF k <= Len(p) THEN p[k] ELSE c)] :
        p \in ListsOver(SimpleCommits, MaxCommits - 1), c \in CommitSpace}

Violations == {<<>>, <<<<"no sign-off found">>>>,
               <<<<"invalid email", EmailInvalid>>, <<"no sign-off found">>>>}
SampleMaps ==
    UNION {[D -> Violations] : D \in SUBSET {HashAt(1), HashAt(2)}}

InitProc ==
    /\ args = OptionArgs(<<wrap_default_value(FALSE), wrap_default_value(FALSE),
                           wrap_default_value(FALSE)>>)
    /\ env = [n \in DcoEnvNames |-> None]
    /\ calls = <<>>
    /\ \E m \in BOOLEAN, v \in BOOLEAN :
           options = [InitialOptions EXCEPT !.check_merge_commits = m, !.verbose = v]
    /\ commit_retriever = Retriever(None)
    /\ commit_range = NoneS
    /\ i = 0
    /\ result = None
    /\ raised = "no"
    /\ steps = <<>>
    /\ stdout = FALSE
    /\ \/ pc = "process_call" /\ commits \in ProcCommitLists /\ infractions = <<>>
       \/ pc = "check" /\ commits = <<>> /\ infractions \in SampleMaps

NextProc ==
    \/ ProcessCommitsCall
    \/ ProcessCommitStep
    \/ ProcessCommitsReturn
    \/ CheckInfractions

SpecProc == InitProc /\ [][NextProc]_vars

\* process_commits called on one commit whose body holds up to MaxSignOffs
\* lines, among them sign-offs with two different invalid emails.
MaxSignOffs == 3
EmailInvalidB == <<"b", "@", "a">>
RichBodyLines == BodyLines \cup {SignOffLine(Chr_b, EmailInvalidB)}

BodyCommitLists ==
    {<<[hash |-> HashAt(1), title |-> <<"t">>, body |-> b, author_name |-> n,
        author_email |-> e, is_merge_commit |-> m]>> :
        b \in ListsOver(RichBodyLines, MaxSignOffs),
        n \in {NoneS, Chr_a}, e \in {NoneS, EmailValid, EmailInvalid}, m \in BOOLEAN}

InitBody ==
    /\ args = OptionArgs(<<wrap_default_value(FALSE), wrap_default_value(FALSE),
                           wrap_default_value(FALSE)>>)
    /\ env = [n \in DcoEnvNames |-> None]
    /\ calls = <<>>
    /\ \E m \in BOOLEAN :
           options = [InitialOptions EXCEPT !.check_merge_commits = m]
    /\ commit_retriever = Retriever(None)
    /\ commit_range = NoneS
    /\ i = 0
    /\ result = None
    /\ raised = "no"
    /\ steps = <<>>
    /\ stdout = FALSE
    /\ pc = "process_call"
    /\ commits \in BodyCommitLists
    /\ infractions = <<>>

SpecBody == InitBody /\ [][NextProc]_vars

\* get_commit_range called directly on a retriever, with the whole CI
\* environment given beforehand (as a test sets os.environ).
InitRange ==
    /\ pc = "range"
    /\ args = OptionArgs(<<wrap_default_value(FALSE), wrap_default_value(FALSE),
                           wrap_default_value(FALSE)>>)
    /\ \E k \in 1..Len(retrievers) : \E e \in EnvDomain(retrievers[k]) :
          /\ commit_retriever = Retriever(retrievers[k])
          /\ env = e @@ [n \in DcoEnvNames |-> None]
          /\ steps = <<<<"select", "value", retrievers[k]>>>>
    /\ calls = <<>>
    /\ options = [InitialOptions EXCEPT !.default_branch = DEFAULT_BRANCH,
                                        !.default_remote = DEFAULT_REMOTE]
    /\ commit_range = NoneS
    /\ commits = <<>>
    /\ i = 0
    /\ infractions = <<>>
    /\ result = None
    /\ raised = "no"
    /\ stdout = FALSE

NextRange == GetCommitRange

SpecRange == InitRange /\ [][NextRange]_vars

\* get_commits called directly on a retriever with a given range, followed
\* by process_commits and check_infractions as in main.  args holds what the
\* call meets: the commits of the range and the outcome of git log, or the
\* response of the compare request.
GithubEventPayload == [repository |-> [compare_url |-> COMPARE_URL]]

InitCommits ==
    /\ pc = "call"
    /\ \E name \in {"git (default)", "CircleCI", "GitHub CI"} :
          /\ commit_retriever =
                 (IF name = "GitHub CI"
                  THEN [Retriever(name) EXCEPT !.github_token = "tok",
                                               !.event_payload = GithubEventPayload]
                  ELSE Retriever(name))
          /\ args \in {[fn |-> "get_commits", arg |-> w] : w \in CommitsWorld(name)}
    /\ env = [n \in DcoEnvNames |-> None]
    /\ calls = <<>>
    /\ \E m \in BOOLEAN, q \in BOOLEAN :
           options = [InitialOptions EXCEPT !.check_merge_commits = m, !.quiet = q,
                                            !.default_branch = DEFAULT_BRANCH,
                                            !.default_remote = DEFAULT_REMOTE]
    /\ commit_range = <<"h1", "h2">>
    /\ commits = <<>>
    /\ i = 0
    /\ infractions = <<>>
    /\ result = None
    /\ raised = "no"
    /\ steps = <<>>
    /\ stdout = FALSE

CallGetCommits ==
    /\ pc = "call"
    /\ args.fn = "get_commits"
    /\ GetCommitsIn(args.arg)

NextCommits ==
    \/ CallGetCommits
    \/ ProcessCommitsCall
    \/ ProcessCommitStep
    \/ ProcessCommitsReturn
    \/ CheckInfractions

SpecCommits == InitCommits /\ [][NextCommits]_vars

\* The options resolved from every command line and every DCO_CHECK_*
\* environment: parse_args, set_options and apply_env_vars as main calls them.
StrArgs(default) == {wrap_default_value(default), Explicit(default), Explicit("other")}
AllArgs ==
    [check_merge_commits : FlagArgs, default_branch : StrArgs(DEFAULT_BRANCH),
     default_remote : StrArgs(DEFAULT_REMOTE), quiet : FlagArgs, verbose : FlagArgs]
FlagEnvValues == {None, "1", "True", "yessss", ""}
AllDcoEnvs ==
    [DCO_CHECK_CHECK_MERGE_COMMITS : FlagEnvValues, DCO_CHECK_DEFAULT_BRANCH : {None, "dev"},
     DCO_CHECK_DEFAULT_REMOTE : {None, "upstream"}, DCO_CHECK_QUIET : FlagEnvValues,
     DCO_CHECK_VERBOSE : FlagEnvValues]

InitOptions ==
    /\ pc = "start"
    /\ args \in AllArgs
    /\ env \in AllDcoEnvs
    /\ calls = <<>>
    /\ options = InitialOptions
    /\ commit_retriever = Retriever(None)
    /\ commit_range = NoneS
    /\ commits = <<>>
    /\ i = 0
    /\ infractions = <<>>
    /\ result = None
    /\ raised = "no"
    /\ steps = <<>>
    /\ stdout = FALSE

NextOptions == SetOptions

SpecOptions == InitOptions /\ [][NextOptions]_vars

\* process_commits with the email exclusions of the later versions (the
\* exclusion code itself is not among the sources; test_processing.py,
\* test_process_commits_exclude_email, and the specification describe it): a
\* commit whose author email is in the list, or in which the pattern is
\* found, is left out before any check.  args holds the exclusion settings.
Contains(s, p) == \E k \in 0..(Len(s) - Len(p)) : SubSeq(s, k + 1, k + Len(p)) = p

is_excluded(commit, exclude_emails, exclude_pattern) ==
    /\ commit.author_email # NoneS
    /\ \/ commit.author_email \in exclude_emails
       \/ exclude_pattern # NoneS /\ Contains(commit.author_email, exclude_pattern)

ExclusionSettings ==
    {[fn |-> "process_commits", exclude_emails |-> l, exclude_pattern |-> p] :
        l \in {{}, {EmailInvalid}}, p \in {NoneS, <<"b", ".">>}}

InitExclude ==
    /\ args \in ExclusionSettings
    /\ env = [n \in DcoEnvNames |-> None]
    /\ calls = <<>>
    /\ \E m \in BOOLEAN :
           options = [InitialOptions EXCEPT !.check_merge_commits = m]
    /\ commit_retriever = Retriever(None)
    /\ commit_range = NoneS
    /\ i = 0
    /\ result = None
    /\ raised = "no"
    /\ steps = <<>>
    /\ stdout = FALSE
    /\ pc = "process_call"
    /\ commits \in ProcCommitLists
    /\ infractions = <<>>

\* One iteration of `for commit in commits` with the exclusion filter.
ProcessCommitStepExcluding ==
    /\ pc = "process"
    /\ i < Len(commits)
    /\ i' = i + 1
    /\ IF is_excluded(commits[i + 1], args.exclude_emails, args.exclude_pattern)
       THEN UNCHANGED <<infractions, stdout, pc, raised, result>>
       ELSE LET r == ProcessCommit(commits[i + 1], options.check_merge_commits, infractions)
            IN /\ infractions' = r.inf
               /\ stdout' = (stdout \/ (r.printed /\ options.verbose))
               /\ IF r.raised # "no"
                  THEN pc' = "raised" /\ raised' = r.raised /\ result' = 1
                  ELSE UNCHANGED <<pc, raised, result>>
    /\ UNCHANGED <<args, env, calls, options, commit_retriever, commit_range, commits,
                   steps>>

NextExclude ==
    \/ ProcessCommitsCall
    \/ ProcessCommitStepExcluding
    \/ ProcessCommitsReturn
    \/ CheckInfractions

SpecExclude == InitExclude /\ [][NextExclude]_vars

\* run(command) on a child process: proc.spawned is whether Popen could start
\* it (Popen raises FileNotFoundError otherwise, which the except clause for
\* CalledProcessError does not catch), proc.returncode and proc.output what
\* communicate() gave.  The value returned, whether logger.print was called,
\* the exception, and the number of Popen calls.
run(proc) ==
    IF ~proc.spawned
    THEN [value |-> NoneS, printed |-> FALSE, raised |-> "FileNotFoundError", spawns |-> 1]
    ELSE IF proc.returncode # 0
    THEN [value |-> NoneS, printed |-> TRUE, raised |-> "no", spawns |-> 1]
    ELSE [value |-> run_output(proc.output), printed |-> FALSE, raised |-> "no",
          spawns |-> 1]

\* The utility functions called directly, as the tests do: args holds the
\* function and its argument, result its return value.
MaxStrLen == 5
MaxEmailLen == 6
DataChars == {"a", "\n", "RS"}
NameChars == {"a", " ", "<", ">"}
EmailChars == {"a", "@", ".", " "}
OutputChars == {"a", " ", "\n"}
Processes ==
    {[spawned |-> sp, returncode |-> rc, output |-> o] :
        sp \in BOOLEAN, rc \in {0, 1}, o \in ListsOver(OutputChars, MaxStrLen)}

UtilCalls ==
    {[fn |-> "split_commits_data", arg |-> x] : x \in ListsOver(DataChars, MaxStrLen)}
    \cup {[fn |-> "extract_name_and_email", arg |-> x] : x \in ListsOver(NameChars, MaxStrLen)}
    \cup {[fn |-> "is_valid_email", arg |-> x] : x \in ListsOver(EmailChars, MaxEmailLen)}
    \cup {[fn |-> "run", arg |-> x] : x \in Processes}

InitUtils ==
    /\ pc = "call"
    /\ args \in UtilCalls
    /\ env = [n \in DcoEnvNames |-> None]
    /\ calls = <<>>
    /\ options = InitialOptions
    /\ commit_retriever = Retriever(None)
    /\ commit_range = NoneS
    /\ commits = <<>>
    /\ i = 0
    /\ infractions = <<>>
    /\ result = None
    /\ raised = "no"
    /\ steps = <<>>
    /\ stdout = FALSE

CallSplitCommitsData ==
    /\ pc = "call"
    /\ args.fn = "split_commits_data"
    /\ result' = split_commits_data(args.arg)
    /\ pc' = "return"
    /\ UNCHANGED <<args, env, calls, options, commit_retriever, commit_range, commits, i,
                   infractions, raised, steps, stdout>>

CallExtractNameAndEmail ==
    /\ pc = "call"
    /\ args.fn = "extract_name_and_email"
    /\ result' = extract_name_and_email(args.arg)
    /\ pc' = "return"
    /\ UNCHANGED <<args, env, calls, options, commit_retriever, commit_range, commits, i,
                   infractions, raised, steps, stdout>>

CallIsValidEmail ==
    /\ pc = "call"
    /\ args.fn = "is_valid_email"
    /\ result' = is_valid_email(args.arg)
    /\ pc' = "return"
    /\ UNCHANGED <<args, env, calls, options, commit_retriever, commit_range, commits, i,
                   infractions, raised, steps, stdout>>

CallRun ==
    /\ pc = "call"
    /\ args.fn = "run"
    /\ LET r == run(args.arg)
       IN /\ result' = r.value
          /\ raised' = r.raised
          /\ pc' = (IF r.raised # "no" THEN "raised" ELSE "return")
          /\ calls' = calls \o [k \in 1..r.spawns |-> Call("Popen", <<>>, None)]
          /\ stdout' = (stdout \/ (r.printed /\ ~options.quiet))
    /\ UNCHANGED <<args, env, options, commit_retriever, commit_range, commits, i,
                   infractions, steps>>

NextUtils ==
    \/ CallSplitCommitsData
    \/ CallExtractNameAndEmail
    \/ CallIsValidEmail
    \/ CallRun

SpecUtils == InitUtils /\ [][NextUtils]_vars

\* ---------------------------------------------------------------- properties
\* The priority order as the specification words it.
PriorityOrder ==
    <<"GitLab", "GitHub CI", "Azure Pipelines", "AppVeyor", "CircleCI", "git (default)">>

Detected == Len(steps) >= 1

\* C1: once detection has run, the active retriever is not None and is the
\* first of GitLab, GitHub, Azure Pipelines, AppVeyor, CircleCI, Git-default
\* whose applies() is true in the environment: every retriever before it had
\* its marker read and does not apply.
C1_FirstApplicableRetriever ==
    Detected =>
        /\ commit_retriever.name # None
        /\ \E k \in 1..Len(PriorityOrder) :
              /\ commit_retriever.name = PriorityOrder[k]
              /\ Marker(PriorityOrder[k]) \in DOMAIN env \cup {None}
              /\ applies(PriorityOrder[k], env)
              /\ \A j \in 1..(k - 1) :
                    /\ Marker(PriorityOrder[j]) \in DOMAIN env
                    /\ ~applies(PriorityOrder[j], env)

\* C1 witness: CircleCI, the last of the CI retrievers, is active with its marker
\* set and the four markers before it read and not applying.
C1_Witness ==
    /\ Detected
    /\ commit_retriever.name = "CircleCI"
    /\ MarkerNames \subseteq DOMAIN env
    /\ env["CIRCLECI"] # None
    /\ env["GITHUB_ACTIONS"] = "false"

StepOrder ==
    <<"select", "get_commit_range", "get_commits", "process_commits", "check_infractions">>

\* C2: the steps of a run are a prefix of selection, get_commit_range,
\* get_commits, process_commits, check_infractions, the two retrievals on the
\* retriever that was selected; after a get_commit_range or get_commits that
\* yielded None no further step happens and main has returned 1.
C2_StepsInOrder ==
    /\ Len(steps) <= Len(StepOrder)
    /\ \A k \in 1..Len(steps) :
          /\ steps[k][1] = StepOrder[k]
          /\ k \in 2..3 => steps[k][3] = steps[1][3]
          /\ (k \in 2..3 /\ steps[k][2] = "None") =>
                 (k = Len(steps) /\ pc = "done" /\ result = 1 /\ raised = "no")
    /\ (pc = "done" /\ result = 0) =>
           (Len(steps) = 2 \/ Len(steps) = Len(StepOrder))

\* C2 witness: get_commits yielded None after a range was obtained, and main
\* returned 1 with process_commits and check_infractions not run.
C2_Witness ==
    /\ Len(steps) = 3
    /\ steps[3][1] = "get_commits"
    /\ steps[3][2] = "None"
    /\ pc = "done"
    /\ result = 1

\* The last command run was a `git log` that exited with a non-zero code.
GitLogFailed ==
    /\ Len(steps) >= 3
    /\ commit_retriever.name # "GitHub CI"
    /\ Len(calls) >= 1
    /\ calls[Len(calls)].cmd = "log"
    /\ calls[Len(calls)].out = "fail"

\* C3: for a git-based retriever, when the git log of get_commits exits with a
\* non-zero code, get_commits returns None without raising and main returns 1.
C3_GitLogFailureIsAbsence ==
    GitLogFailed =>
        /\ raised = "no"
        /\ steps[3][2] = "None"
        /\ pc = "done"
        /\ result = 1

\* C4: when get_commit_range returned a pair with base equal to head, main has
\* returned 0 and get_commits, process_commits and check_infractions were not
\* called: no log command or request was made and nothing was checked.
C4_EqualRangeReturnsZero ==
    (Len(steps) >= 2 /\ steps[2][2] = "value" /\ commit_range[1] = commit_range[2]) =>
        /\ pc = "done"
        /\ result = 0
        /\ Len(steps) = 2
        /\ \A k \in 1..Len(calls) : calls[k].cmd \notin {"log", "GET"}
        /\ commits = <<>>
        /\ infractions = <<>>

\* C4 witness: a run that ended after get_commit_range with base = head.
C4_Witness ==
    /\ Len(steps) = 2
    /\ steps[2][2] = "value"
    /\ commit_range[1] = commit_range[2]
    /\ pc = "done"
    /\ result = 0

Checked == Len(steps) >= 1 /\ steps[Len(steps)][1] = "check_infractions"

\* C5: check_infractions returns 0 exactly when the map has no key and 1
\* otherwise, also when a key's list is empty.
C5_ZeroIffNoKeys ==
    Checked =>
        /\ result \in {0, 1}
        /\ (result = 0) <=> (DOMAIN infractions = {})

\* C5 witness: check_infractions returned 1 on a map with a key whose list is
\* empty.
C5_Witness ==
    /\ Checked
    /\ result = 1
    /\ \E h \in DOMAIN infractions : infractions[h] = <<>>

\* The loop of process_commits has taken commit k; it raised on it; it took it
\* and went on to the next iteration.
Taken(k) == pc \in {"process", "check", "done", "raised"} /\ k <= i
RaisedOn(k) == pc = "raised" /\ k = i
Evaluated(k) == Taken(k) /\ ~RaisedOn(k)

\* The infractions recorded under the hash of commit k.
InfractionsOf(k) ==
    IF commits[k].hash \in DOMAIN infractions THEN infractions[commits[k].hash] ELSE <<>>

HasAuthor(c) == c.author_name # NoneS /\ c.author_email # NoneS
IsSkipped(c) == c.is_merge_commit /\ ~options.check_merge_commits
BeginsWithKey(l) ==
    /\ Len(l) >= Len(TRAILER_KEY_SIGNED_OFF_BY)
    /\ SubSeq(l, 1, Len(TRAILER_KEY_SIGNED_OFF_BY)) = TRAILER_KEY_SIGNED_OFF_BY
HasNoSignOffLine(c) == \A n \in 1..Len(c.body) : ~BeginsWithKey(c.body[n])

\* What a Signed-off-by line says: the text after the key, parsed.
SignOffText(l) ==
    str_strip(SubSeq(l, Len(TRAILER_KEY_SIGNED_OFF_BY) + 1, Len(l)), {" "})
SignOffPair(l) == extract_name_and_email(SignOffText(l))
IsWellFormed(l) == SignOffPair(l) # NoneS /\ is_valid_email(SignOffPair(l)[2])
IsMalformed(l) == SignOffPair(l) # NoneS /\ ~is_valid_email(SignOffPair(l)[2])
AuthorLine(c) == SignOffLine(c.author_name, c.author_email)

\* C6 as stated: a commit with author (N, E) whose body has the line
\* `Signed-off-by: N <E>` has no infraction once evaluated, whatever N, E and
\* the rest of the body are.
C6_SignedByAuthorNoInfraction ==
    \A k \in 1..Len(commits) :
        (Evaluated(k) /\ HasAuthor(commits[k])
                      /\ InSeq(AuthorLine(commits[k]), commits[k].body))
            => InfractionsOf(k) = <<>>

\* C6 amended: a commit with author (N, E) whose body has the line
\* `Signed-off-by: N <E>`, where E is a valid email, the line reads back as
\* (N, E), and every Signed-off-by line of the body carries a name and a valid
\* email, is evaluated without raising and has no infraction.
C6_SignedByAuthorAllValidNoInfraction ==
    \A k \in 1..Len(commits) :
        (Taken(k) /\ HasAuthor(commits[k])
                  /\ InSeq(AuthorLine(commits[k]), commits[k].body)
                  /\ is_valid_email(commits[k].author_email)
                  /\ SignOffPair(AuthorLine(commits[k]))
                         = <<commits[k].author_name, commits[k].author_email>>
                  /\ \A n \in 1..Len(commits[k].body) :
                         BeginsWithKey(commits[k].body[n]) => IsWellFormed(commits[k].body[n]))
            => (~RaisedOn(k) /\ InfractionsOf(k) = <<>>)

\* C6 witness: a checked commit signed off by its author and by somebody
\* else, both with valid emails.
C6_Witness ==
    \E k \in 1..Len(commits) :
        /\ Evaluated(k)
        /\ ~IsSkipped(commits[k])
        /\ HasAuthor(commits[k])
        /\ is_valid_email(commits[k].author_email)
        /\ InSeq(AuthorLine(commits[k]), commits[k].body)
        /\ \E n \in 1..Len(commits[k].body) :
              /\ IsWellFormed(commits[k].body[n])
              /\ SignOffPair(commits[k].body[n])[1] # commits[k].author_name
        /\ \A n \in 1..Len(commits[k].body) :
              BeginsWithKey(commits[k].body[n]) => IsWellFormed(commits[k].body[n])
        /\ InfractionsOf(k) = <<>>

\* C7 as stated: a commit whose body has no line, or no line beginning with
\* `Signed-off-by:`, has exactly the one infraction "no sign-off found" once
\* evaluated.
C7_NoSignOffLineOneInfraction ==
    \A k \in 1..Len(commits) :
        (Evaluated(k) /\ HasNoSignOffLine(commits[k]))
            => InfractionsOf(k) = << <<"no sign-off found">> >>

\* C7 amended: a commit that is checked (not a merge commit skipped because
\* check_merge_commits is false), whose author name and email are present and
\* whose body has no line beginning with `Signed-off-by:`, is evaluated without
\* raising and has exactly the one infraction "no sign-off found".
C7_CheckedAuthoredNoSignOffLineOneInfraction ==
    \A k \in 1..Len(commits) :
        (Taken(k) /\ ~IsSkipped(commits[k]) /\ HasAuthor(commits[k])
                  /\ HasNoSignOffLine(commits[k]))
            => (~RaisedOn(k) /\ InfractionsOf(k) = << <<"no sign-off found">> >>)

\* C7 witness: a checked commit with an author and a body line that is not a
\* sign-off has the one infraction.
C7_Witness ==
    \E k \in 1..Len(commits) :
        /\ Evaluated(k)
        /\ ~IsSkipped(commits[k])
        /\ HasAuthor(commits[k])
        /\ Len(commits[k].body) >= 1
        /\ HasNoSignOffLine(commits[k])
        /\ InfractionsOf(k) = << <<"no sign-off found">> >>

\* C8: a merge commit without a sign-off, once the loop has taken it, has no
\* entry in the map when check_merge_commits is false and exactly one
\* infraction when it is true; with the flag false every merge commit is
\* skipped, whatever its author fields and body.
C8_MergeCommitFollowsFlag ==
    \A k \in 1..Len(commits) :
        (Taken(k) /\ commits[k].is_merge_commit) =>
            /\ ~RaisedOn(k)
            /\ ~options.check_merge_commits =>
                   commits[k].hash \notin DOMAIN infractions
            /\ (options.check_merge_commits /\ HasNoSignOffLine(commits[k])) =>
                   Len(InfractionsOf(k)) = 1

CountOf(s, P(_)) == Cardinality({n \in 1..Len(s) : P(s[n])})
IsInvalidEmailEntry(x) == x[1] = "invalid email"
IsNotFoundEntry(x) == x[1] = "sign-off not found for commit author"
IsMalformedSignOff(l) == BeginsWithKey(l) /\ IsMalformed(l)
AllSignOffsParse(c) ==
    \A n \in 1..Len(c.body) : BeginsWithKey(c.body[n]) => SignOffPair(c.body[n]) # NoneS
AuthorSignedValidly(c) ==
    \E n \in 1..Len(c.body) :
        /\ BeginsWithKey(c.body[n])
        /\ IsWellFormed(c.body[n])
        /\ SignOffPair(c.body[n]) = <<c.author_name, c.author_email>>

\* C9 as stated: a checked commit with an author and a sign-off whose email
\* fails the validity regex has exactly one infraction once evaluated.
C9_InvalidSignOffEmailOneInfraction ==
    \A k \in 1..Len(commits) :
        (Evaluated(k) /\ ~IsSkipped(commits[k]) /\ HasAuthor(commits[k])
                      /\ \E n \in 1..Len(commits[k].body) :
                             IsMalformedSignOff(commits[k].body[n]))
            => Len(InfractionsOf(k)) = 1

\* C9 amended: for a checked commit with an author whose sign-offs all read as
\* `name <email>` and at least one of them has an email that fails the validity
\* regex, the commit's hash is a key of the map, and its list holds one
\* "invalid email" infraction per such sign-off and, besides these, the
\* "sign-off not found for commit author" infraction exactly when no sign-off
\* with a valid email equals the author's pair: a malformed sign-off never
\* satisfies the author match, even with the author's own name and email.
C9_InvalidSignOffEmailsRecordedAndNotCounted ==
    \A k \in 1..Len(commits) :
        (Taken(k) /\ ~IsSkipped(commits[k]) /\ HasAuthor(commits[k])
                  /\ AllSignOffsParse(commits[k])
                  /\ \E n \in 1..Len(commits[k].body) :
                         IsMalformedSignOff(commits[k].body[n]))
            => /\ ~RaisedOn(k)
               /\ commits[k].hash \in DOMAIN infractions
               /\ CountOf(InfractionsOf(k), IsInvalidEmailEntry)
                      = CountOf(commits[k].body, IsMalformedSignOff)
               /\ CountOf(InfractionsOf(k), IsNotFoundEntry)
                      = (IF AuthorSignedValidly(commits[k]) THEN 0 ELSE 1)
               /\ Len(InfractionsOf(k))
                      = CountOf(InfractionsOf(k), IsInvalidEmailEntry)
                        + CountOf(InfractionsOf(k), IsNotFoundEntry)

\* C9 witness: an evaluated commit whose only sign-off names the author with the
\* author's own, invalid, email: the sign-off is recorded as invalid and the
\* author is reported as not signed off.
C9_Witness ==
    \E k \in 1..Len(commits) :
        /\ Evaluated(k)
        /\ ~IsSkipped(commits[k])
        /\ HasAuthor(commits[k])
        /\ commits[k].body = <<AuthorLine(commits[k])>>
        /\ IsMalformedSignOff(commits[k].body[1])
        /\ Len(InfractionsOf(k)) = 2
        /\ IsInvalidEmailEntry(InfractionsOf(k)[1])
        /\ IsNotFoundEntry(InfractionsOf(k)[2])

\* C10: a checked commit whose author name or author email is absent is
\* evaluated without raising, verbose or not, and has exactly the one
\* infraction "could not extract author data" under its hash.
C10_AbsentAuthorOneInfractionNoRaise ==
    \A k \in 1..Len(commits) :
        (Taken(k) /\ ~IsSkipped(commits[k]) /\ ~HasAuthor(commits[k])) =>
            /\ ~RaisedOn(k)
            /\ InfractionsOf(k)
                   = << <<"could not extract author data for commit", commits[k].hash>> >>

HasSignOffLine(c) == \E n \in 1..Len(c.body) : BeginsWithKey(c.body[n])

\* C11: for a checked commit with author present and at least one sign-off
\* line, the loop evaluates the commit and records the "sign-off not found for
\* commit author" infraction once if no sign-off line parses to exactly the
\* author's (name, email) with a valid email, and not at all otherwise.
C11_NotFoundIffNoValidAuthorSignOff ==
    \A k \in 1..Len(commits) :
        (Taken(k) /\ ~IsSkipped(commits[k]) /\ HasAuthor(commits[k])
                  /\ HasSignOffLine(commits[k]))
            => /\ ~RaisedOn(k)
               /\ CountOf(InfractionsOf(k), IsNotFoundEntry)
                      = (IF AuthorSignedValidly(commits[k]) THEN 0 ELSE 1)

IsAuthorEntry(x) == x[1] = "could not extract author data for commit"
IsNoSignOffEntry(x) == x[1] = "no sign-off found"

\* C12 as stated: an evaluated commit has more than one infraction only when
\* it has an "invalid email" infraction together with the "sign-off not found
\* for commit author" one.
C12_SeveralOnlyInvalidPlusNotFound ==
    \A k \in 1..Len(commits) :
        (Evaluated(k) /\ Len(InfractionsOf(k)) > 1)
            => /\ CountOf(InfractionsOf(k), IsInvalidEmailEntry) >= 1
               /\ CountOf(InfractionsOf(k), IsNotFoundEntry) = 1

\* C12 amended: an evaluated commit has more than one infraction only when it
\* has an invalid sign-off email: its list then holds one "invalid email" entry
\* per such sign-off and at most one "sign-off not found for commit author"
\* entry, which may be missing (several invalid emails beside a valid author
\* sign-off); a checked commit that stops at the author check or at the
\* no-sign-off check has exactly the one infraction of that check.
C12_SeveralOnlyWithInvalidEmails ==
    \A k \in 1..Len(commits) :
        Evaluated(k) =>
            /\ Len(InfractionsOf(k)) > 1 =>
                   /\ CountOf(InfractionsOf(k), IsInvalidEmailEntry) >= 1
                   /\ CountOf(InfractionsOf(k), IsInvalidEmailEntry)
                          = CountOf(commits[k].body, IsMalformedSignOff)
                   /\ CountOf(InfractionsOf(k), IsNotFoundEntry) <= 1
                   /\ Len(InfractionsOf(k))
                          = CountOf(InfractionsOf(k), IsInvalidEmailEntry)
                            + CountOf(InfractionsOf(k), IsNotFoundEntry)
            /\ (~IsSkipped(commits[k]) /\ ~HasAuthor(commits[k])) =>
                   (Len(InfractionsOf(k)) = 1 /\ IsAuthorEntry(InfractionsOf(k)[1]))
            /\ (~IsSkipped(commits[k]) /\ HasAuthor(commits[k])
                                       /\ HasNoSignOffLine(commits[k])) =>
                   (Len(InfractionsOf(k)) = 1 /\ IsNoSignOffEntry(InfractionsOf(k)[1]))

\* C12 witness: an evaluated commit validly signed off by its author, with two
\* more sign-offs whose emails are invalid: two infractions, no "sign-off not
\* found for commit author" among them.
C12_Witness ==
    \E k \in 1..Len(commits) :
        /\ Evaluated(k)
        /\ ~IsSkipped(commits[k])
        /\ AuthorSignedValidly(commits[k])
        /\ CountOf(commits[k].body, IsMalformedSignOff) = 2
        /\ Len(InfractionsOf(k)) = 2
        /\ CountOf(InfractionsOf(k), IsNotFoundEntry) = 0

\* C13: process_commits never raises: every commit the loop takes is evaluated,
\* whatever the commit records hold, and when the loop has ended every commit
\* of the list was taken.
C13_ProcessingNeverAborts ==
    /\ \A k \in 1..Len(commits) : Taken(k) => ~RaisedOn(k)
    /\ (pc \in {"check", "done"} /\ Len(steps) >= 1) => i = Len(commits)

\* The "invalid email" entries a body gives rise to, in the order of its lines.
InvalidEntriesOf(body) ==
    LET bad == SelectSeq(body, IsMalformedSignOff)
    IN [n \in 1..Len(bad) |-> <<"invalid email", SignOffPair(bad[n])[2]>>]

\* C14: in each commit's list every "invalid email" entry comes before the
\* "sign-off not found for commit author" entry; for an evaluated commit whose
\* sign-offs all parse the invalid-email entries are those of the malformed
\* sign-off lines in the order of the body; and the hash of a commit is a key
\* of the map only with at least one entry.
C14_EntriesInCheckOrder ==
    \A k \in 1..Len(commits) :
        Taken(k) =>
            /\ \A a \in 1..Len(InfractionsOf(k)) : \A b \in (a + 1)..Len(InfractionsOf(k)) :
                   ~(IsNotFoundEntry(InfractionsOf(k)[a])
                         /\ IsInvalidEmailEntry(InfractionsOf(k)[b]))
            /\ (Evaluated(k) /\ ~IsSkipped(commits[k]) /\ HasAuthor(commits[k])
                             /\ AllSignOffsParse(commits[k])) =>
                   SelectSeq(InfractionsOf(k), IsInvalidEmailEntry)
                       = InvalidEntriesOf(commits[k].body)
            /\ commits[k].hash \in DOMAIN infractions =>
                   Len(infractions[commits[k].hash]) >= 1

\* C14 witness: an evaluated commit with two sign-offs whose invalid emails
\* differ and no valid sign-off of its author: three entries, the two invalid
\* emails in body order, then the missing author sign-off.
C14_Witness ==
    \E k \in 1..Len(commits) :
        /\ Evaluated(k)
        /\ Len(InfractionsOf(k)) = 3
        /\ IsInvalidEmailEntry(InfractionsOf(k)[1])
        /\ IsInvalidEmailEntry(InfractionsOf(k)[2])
        /\ InfractionsOf(k)[1] # InfractionsOf(k)[2]
        /\ IsNotFoundEntry(InfractionsOf(k)[3])

Returned(fn) == pc = "return" /\ args.fn = fn
Called(fn) == pc \in {"return", "raised"} /\ args.fn = fn

RECURSIVE Flatten(_)
Flatten(list) == IF Len(list) = 0 THEN <<>> ELSE list[1] \o Flatten(Tail(list))
WithoutChars(s, chars) == SelectSeq(s, LAMBDA c : c \notin chars)
IsBlankChunk(c) == \A n \in 1..Len(c) : c[n] = "\n"

\* C15: split_commits_data returns the records of its input in their order
\* (one per chunk between separators that holds more than newlines, with the
\* characters of the input), each of them non-empty and without a leading or
\* trailing newline; and splitting the join of the returned list by the
\* separator, also with a trailing separator or with newlines around it, gives
\* the list again.
C15_SplitGivesCleanRecordsAndRoundTrips ==
    Returned("split_commits_data") =>
        /\ \A k \in 1..Len(result) :
              /\ Len(result[k]) > 0
              /\ result[k][1] # "\n"
              /\ result[k][Len(result[k])] # "\n"
              /\ ~HasChar(result[k], "RS")
        /\ Len(result) = CountOf(str_split(args.arg, "RS"), LAMBDA c : ~IsBlankChunk(c))
        /\ WithoutChars(Flatten(result), {"\n"}) = WithoutChars(args.arg, {"\n", "RS"})
        /\ split_commits_data(str_join(result, "RS")) = result
        /\ split_commits_data(str_join(result, "RS") \o <<"RS">>) = result
        /\ split_commits_data(<<"\n">> \o str_join(result, "RS") \o <<"RS", "\n">>) = result

\* C15 witness: two records returned from an input with a newline after the
\* separator and a trailing separator.
C15_Witness ==
    /\ Returned("split_commits_data")
    /\ args.arg = <<"a", "RS", "\n", "a", "RS">>
    /\ result = <<<<"a">>, <<"a">>>>

\* The argument is N + " <" + E + ">" with N its first n characters.
IsNameEmailAt(s, n) ==
    /\ n + 3 <= Len(s)
    /\ s[n + 1] = " "
    /\ s[n + 2] = "<"
    /\ s[Len(s)] = ">"
NameAt(s, n) == SubSeq(s, 1, n)
EmailAt(s, n) == SubSeq(s, n + 3, Len(s) - 1)
HasBracketPart(s) == \E a \in 1..Len(s) : \E b \in (a + 1)..Len(s) : s[a] = "<" /\ s[b] = ">"
HasSpaceLt(s) == \E k \in 1..Len(s) : SpaceLtAt(s, k)

HasEmailShape(s) ==
    /\ \A k \in 1..Len(s) : s[k] \notin Whitespace
    /\ \E p \in 2..Len(s) : \E q \in (p + 2)..(Len(s) - 1) : s[p] = "@" /\ s[q] = "."

\* C17: is_valid_email accepts a string exactly when the string has the shape
\* <non-whitespace string>@<non-whitespace string>.<non-whitespace string>.
C17_AcceptsExactlyEmailShape ==
    Returned("is_valid_email") => (result <=> HasEmailShape(args.arg))

AllIn(s, chars) == \A k \in 1..Len(s) : s[k] \in chars
HasNoTrailingWhitespace(s) == Len(s) > 0 => s[Len(s)] \notin Whitespace

\* C18: run never raises and starts the child once; on a zero exit code it
\* returns the output with the trailing whitespace trimmed (the code also trims
\* leading newlines); on a non-zero exit code and when the child cannot be
\* spawned it returns None after logging.
C18_RunReturnsOutputOrAbsence ==
    Called("run") =>
        /\ pc = "return"
        /\ raised = "no"
        /\ Len(calls) = 1
        /\ (args.arg.spawned /\ args.arg.returncode = 0) =>
               /\ HasNoTrailingWhitespace(result)
               /\ \E a \in 0..Len(args.arg.output) : \E b \in a..Len(args.arg.output) :
                      /\ result = SubSeq(args.arg.output, a + 1, b)
                      /\ AllIn(SubSeq(args.arg.output, 1, a), {"\n"})
                      /\ AllIn(SubSeq(args.arg.output, b + 1, Len(args.arg.output)),
                               Whitespace)
        /\ (~args.arg.spawned \/ args.arg.returncode # 0) =>
               (result = NoneS /\ stdout)

RangeAsked(name) ==
    /\ Len(steps) >= 2
    /\ steps[2][1] = "get_commit_range"
    /\ commit_retriever.name = name
Gitlab(n) == IF n \in DOMAIN env THEN env[n] ELSE None
GitlabDefaultBranch ==
    IF Gitlab("CI_DEFAULT_BRANCH") = None THEN options.default_branch
    ELSE Gitlab("CI_DEFAULT_BRANCH")
GitlabOnDefaultBranch ==
    Gitlab("CI_COMMIT_BRANCH") # None /\ Gitlab("CI_COMMIT_BRANCH") = GitlabDefaultBranch
GitlabOnMergeRequest ==
    /\ "CI_MERGE_REQUEST_TARGET_BRANCH_SHA" \in DOMAIN env
    /\ Gitlab("CI_COMMIT_BRANCH") = None
    /\ Gitlab("CI_MERGE_REQUEST_TARGET_BRANCH_SHA") # None
GitCouldStart == \A k \in 1..Len(calls) : calls[k].out # ENOENT

\* The range is the outcome of fetching the default branch from the remote and
\* of the fork point with <remote>/<default branch>: None when either exits
\* with a non-zero code.
GitlabRangeOffDefaultBranch ==
    /\ Len(calls) >= 1
    /\ calls[1].cmd = "fetch"
    /\ calls[1].args = <<options.default_remote, GitlabDefaultBranch>>
    /\ IF calls[1].out = None
       THEN Len(calls) = 1 /\ commit_range = NoneS
       ELSE /\ Len(calls) = 2
            /\ calls[2].cmd = "merge-base"
            /\ calls[2].args = <<options.default_remote, "/", GitlabDefaultBranch>>
            /\ commit_range = (IF calls[2].out = None THEN NoneS
                               ELSE <<calls[2].out, Gitlab("CI_COMMIT_SHA")>>)

GitlabRangeOnDefaultBranch ==
    /\ calls = <<>>
    /\ commit_range = (IF Gitlab("CI_COMMIT_BEFORE_SHA") = None THEN NoneS
                       ELSE <<Gitlab("CI_COMMIT_BEFORE_SHA"), Gitlab("CI_COMMIT_SHA")>>)

Github(n) == IF n \in DOMAIN env THEN env[n] ELSE None
GithubPayload == commit_retriever.event_payload
GithubRangeIs(r) == raised = "no" /\ steps[2][2] # "raised" /\ commit_range = r

\* C20: GitHub's range is None when GITHUB_TOKEN, GITHUB_EVENT_PATH or
\* GITHUB_EVENT_NAME is unset or the event is neither pull_request nor push; a
\* pull_request event gives (pull_request.base.sha, pull_request.head.sha);
\* every push payload gives head = head_commit.id with base = the first pushed
\* commit's id followed by ^ when created is true, and base = before otherwise.
C20_GithubRangeForEveryPayload ==
    RangeAsked("GitHub CI") =>
        LET event_name == Github("GITHUB_EVENT_NAME")
        IN IF Github("GITHUB_TOKEN") = None \/ Github("GITHUB_EVENT_PATH") = None
           THEN GithubRangeIs(NoneS)
           ELSE IF HasKey(GithubPayload, "none") THEN TRUE
           ELSE IF event_name \notin {"pull_request", "push"} THEN GithubRangeIs(NoneS)
           ELSE IF event_name = "pull_request" /\ HasKey(GithubPayload, "pull_request")
           THEN GithubRangeIs(<<GithubPayload.pull_request.base.sha,
                                GithubPayload.pull_request.head.sha>>)
           ELSE IF event_name = "push" /\ HasKey(GithubPayload, "created")
           THEN /\ raised = "no"
                /\ Len(commit_range) = 2
                /\ commit_range[2] = GithubPayload.head_commit.id
                /\ IF GithubPayload.created
                   THEN /\ Len(GithubPayload.commits) > 0
                        /\ commit_range[1] = GithubPayload.commits[1].id \o "^"
                   ELSE commit_range[1] = GithubPayload.before
           ELSE TRUE

\* The same statement for the push payloads that list at least one commit
\* whenever created is true.
GithubRangeForPayloadsWithCommits ==
    (RangeAsked("GitHub CI") /\ HasKey(GithubPayload, "created")
        /\ GithubPayload.created /\ Len(GithubPayload.commits) = 0)
    \/ C20_GithubRangeForEveryPayload

Environ(n) == IF n \in DOMAIN env THEN env[n] ELSE None
ForkPointRetrievers == {"Azure Pipelines", "CircleCI", "AppVeyor"}
HeadVariable(name) ==
    CASE name = "Azure Pipelines" -> "BUILD_SOURCEVERSION"
      [] name = "CircleCI" -> "CIRCLE_SHA1"
      [] OTHER -> "APPVEYOR_PULL_REQUEST_HEAD_COMMIT"
\* The target branch of the pull request being built, None outside one.
PullRequestTarget(name) ==
    CASE name = "Azure Pipelines" -> Environ("SYSTEM_PULLREQUEST_TARGETBRANCH")
      [] name = "AppVeyor" -> Environ("APPVEYOR_REPO_BRANCH")
      [] OTHER -> None
\* The range is the fork point with <remote>/<branch> after fetching branch.
ForkPointRangeOff(branch, head) ==
    /\ Len(calls) >= 1
    /\ calls[1].cmd = "fetch"
    /\ calls[1].args = <<options.default_remote, branch>>
    /\ IF calls[1].out = None
       THEN Len(calls) = 1 /\ commit_range = NoneS
       ELSE /\ Len(calls) = 2
            /\ calls[2].cmd = "merge-base"
            /\ calls[2].args = <<options.default_remote, "/", branch>>
            /\ commit_range = (IF calls[2].out = None THEN NoneS
                               ELSE <<calls[2].out, head>>)

\* C21: for Azure Pipelines, CircleCI and AppVeyor, head is the provider's
\* variable and base is the fork point with the pull request's target branch
\* (fetched from the remote) under a pull request, with the configured default
\* branch (fetched from the remote) otherwise.
C21_ForkPointOffTargetOrDefaultBranch ==
    \A name \in ForkPointRetrievers :
        (RangeAsked(name) /\ GitCouldStart /\ Environ(HeadVariable(name)) # None) =>
            ForkPointRangeOff(IF PullRequestTarget(name) # None
                              THEN PullRequestTarget(name)
                              ELSE options.default_branch,
                              Environ(HeadVariable(name)))

\* What Azure Pipelines and CircleCI do: the fork point is always taken with
\* the configured default branch.
ForkPointAlwaysOffDefaultBranch ==
    \A name \in {"Azure Pipelines", "CircleCI"} :
        (RangeAsked(name) /\ GitCouldStart /\ Environ(HeadVariable(name)) # None) =>
            ForkPointRangeOff(options.default_branch, Environ(HeadVariable(name)))

CommitsAsked ==
    /\ "fn" \in DOMAIN args
    /\ args.fn = "get_commits"
    /\ Len(steps) >= 1
    /\ steps[1][1] = "get_commits"
GitLogStrategy == commit_retriever.name # "GitHub CI"
CommitsOfRange == args.arg.repo
HashesOf(cs) == [k \in 1..Len(cs) |-> cs[k].hash]
\* The hashes of the commits of the range, without the merges if asked.
HashesOfRange(without_merges) ==
    LET kept == SelectSeq([k \in 1..Len(CommitsOfRange) |-> k],
                          LAMBDA k : ~(without_merges /\ CommitsOfRange[k].merge))
    IN [n \in 1..Len(kept) |-> HashAt(kept[n])]
ElementsOf(seq) == {seq[k] : k \in 1..Len(seq)}
LogCarriesNoMerges ==
    /\ Len(calls) = 1
    /\ calls[1].cmd = "log"
    /\ SubSeq(calls[1].args, 1, 2) = commit_range
    /\ ("--no-merges" \in ElementsOf(calls[1].args)) <=> ~options.check_merge_commits
RecordsAreRangeWithoutMergeFlag ==
    /\ steps[1][2] = "value"
    /\ \A k \in 1..Len(commits) : ~commits[k].is_merge_commit
    /\ HashesOf(commits) = HashesOfRange(~options.check_merge_commits)

\* C22: with the git-log strategy the log command over base..head carries
\* --no-merges iff check_merge_commits is false, every record has
\* is_merge_commit = false, and the records given to validation are the
\* commits of the range without the merges when check_merge_commits is false
\* and all the commits of the range when it is true.
C22_MergesLeftOutAtTheLog ==
    (CommitsAsked /\ GitLogStrategy /\ args.arg.log # ENOENT) =>
        /\ LogCarriesNoMerges
        /\ (args.arg.log = "ok") => RecordsAreRangeWithoutMergeFlag

\* The same for the ranges whose listed commits all have a subject.
MergesLeftOutAtTheLogOfTitledCommits ==
    (CommitsAsked /\ GitLogStrategy /\ args.arg.log # ENOENT) =>
        /\ LogCarriesNoMerges
        /\ (/\ args.arg.log = "ok"
            /\ \A k \in 1..Len(CommitsOfRange) :
                   \/ Len(CommitsOfRange[k].subject) > 0
                   \/ (CommitsOfRange[k].merge /\ ~options.check_merge_commits))
           => RecordsAreRangeWithoutMergeFlag

\* The non-empty chunks of the output of the log command of the call.
LogChunks ==
    LET output == run_output(FormatLog(CommitsOfRange, 1, ~options.check_merge_commits))
        chunks == str_split(output, "RS")
    IN SelectSeq(chunks, LAMBDA c : ~IsBlankChunk(c))
LineOr(lines, n, default) == IF n <= Len(lines) THEN lines[n] ELSE default
\* The record is the chunk read line by line.
IsRecordOfChunk(record, chunk) ==
    LET lines == str_split(str_strip(chunk, {"\n"}), "\n")
        author == extract_name_and_email(LineOr(lines, 2, <<>>))
    IN /\ record.hash = lines[1]
       /\ record.title = LineOr(lines, 3, <<>>)
       /\ record.body = SubSeq(lines, 4, Len(lines))
       /\ record.author_name = (IF author = NoneS THEN NoneS ELSE author[1])
       /\ record.author_email = (IF author = NoneS THEN NoneS ELSE author[2])

\* C30: GitRetriever.get_commits turns every non-empty chunk of the log output
\* into exactly one record, in the same order and without raising: hash =
\* first line, author = parse of the second line (none/none when malformed),
\* title = third line, body = the remaining lines, also for a chunk with fewer
\* than three lines.
C30_EveryChunkGivesOneRecord ==
    (CommitsAsked /\ GitLogStrategy /\ args.arg.log = "ok") =>
        /\ steps[1][2] = "value"
        /\ Len(commits) = Len(LogChunks)
        /\ \A k \in 1..Len(commits) : IsRecordOfChunk(commits[k], LogChunks[k])

\* The same for the outputs whose chunks all have three lines or more.
EveryChunkOfThreeLinesGivesOneRecord ==
    (/\ CommitsAsked /\ GitLogStrategy /\ args.arg.log = "ok"
     /\ \A k \in 1..Len(LogChunks) :
            Len(str_split(str_strip(LogChunks[k], {"\n"}), "\n")) >= 3) =>
        /\ steps[1][2] = "value"
        /\ Len(commits) = Len(LogChunks)
        /\ \A k \in 1..Len(commits) : IsRecordOfChunk(commits[k], LogChunks[k])

CompareResponse == args.arg
NonEmptyLines(message) == SelectSeq(str_split(message, "\n"), LAMBDA l : l # <<>>)
IsRecordOfCommitObject(record, object) ==
    LET lines == NonEmptyLines(object.message)
    IN /\ record.hash = object.sha
       /\ record.title = LineOr(lines, 1, <<>>)
       /\ record.body = SubSeq(lines, 2, Len(lines))
       /\ record.author_name = object.author_name
       /\ record.author_email = object.author_email
       /\ record.is_merge_commit <=> object.parents > 1
OneCompareRequest ==
    /\ Len(calls) = 1
    /\ calls[1].cmd = "GET"
    /\ calls[1].args = <<commit_retriever.event_payload.repository.compare_url,
                         commit_range[1], commit_range[2]>>
RecordsAreCommitObjects ==
    /\ steps[1][2] = "value"
    /\ Len(commits) = Len(CompareResponse.json)
    /\ \A k \in 1..Len(commits) :
           IsRecordOfCommitObject(commits[k], CompareResponse.json[k])

\* C23: GitHub get_commits performs one GET on the compare URL of the payload
\* with base and head; a non-200 response gives None; on 200 every commit
\* object of the response gives one record, in order, with hash = sha, title =
\* first non-empty message line, body = the other non-empty lines, the author
\* of commit.author, and is_merge_commit iff more than one parent.
C23_OneRecordPerCommitObject ==
    (CommitsAsked /\ ~GitLogStrategy) =>
        /\ OneCompareRequest
        /\ IF CompareResponse.status # 200
           THEN steps[1][2] = "None" /\ commits = <<>>
           ELSE RecordsAreCommitObjects

\* The same for the responses whose commits all have a non-empty message line.
OneRecordPerCommitObjectWithMessage ==
    (CommitsAsked /\ ~GitLogStrategy) =>
        /\ OneCompareRequest
        /\ IF CompareResponse.status # 200
           THEN steps[1][2] = "None" /\ commits = <<>>
           ELSE (\A k \in 1..Len(CompareResponse.json) :
                     NonEmptyLines(CompareResponse.json[k].message) # <<>>)
                => RecordsAreCommitObjects

OptionsSet == pc # "start" /\ raised # "SystemExit"
FlagOptions == {"check_merge_commits", "quiet", "verbose"}
StrOptions == {"default_branch", "default_remote"}
EnvVarOf(option) ==
    CASE option = "check_merge_commits" -> "DCO_CHECK_CHECK_MERGE_COMMITS"
      [] option = "default_branch" -> "DCO_CHECK_DEFAULT_BRANCH"
      [] option = "default_remote" -> "DCO_CHECK_DEFAULT_REMOTE"
      [] option = "quiet" -> "DCO_CHECK_QUIET"
      [] OTHER -> "DCO_CHECK_VERBOSE"
SetOnCommandLine(option) == ~args[option].is_default
SetInEnvironment(option) == env[EnvVarOf(option)] # None

C25_FlagTrueWheneverVariableSet ==
    OptionsSet =>
        \A o \in FlagOptions :
            ~SetOnCommandLine(o) => (options[o] <=> SetInEnvironment(o))

\* What real_cast does instead: true for the listed spellings only.
FlagTrueForListedSpellings ==
    OptionsSet =>
        \A o \in FlagOptions :
            ~SetOnCommandLine(o) => (options[o] <=> env[EnvVarOf(o)] \in {"1", "True"})

BothQuietAndVerbose ==
    \/ SetOnCommandLine("quiet") /\ SetOnCommandLine("verbose")
    \/ pc # "start" /\ raised # "SystemExit" /\ options.quiet /\ options.verbose
NothingStarted == steps = <<>> /\ calls = <<>> /\ commit_retriever.name = None

\* C26: when quiet and verbose both resolve to true (command line,
\* environment, or one from each) option resolution ends the run with a
\* SystemExit, before any retriever is selected or any command is run.
C26_QuietAndVerboseIsSystemExit ==
    (pc # "start" /\ BothQuietAndVerbose) =>
        /\ raised = "SystemExit"
        /\ NothingStarted

\* What the code does: SystemExit from argparse for -q with -v, ValueError out
\* of apply_env_vars when the environment is involved.
QuietAndVerboseEndsTheRun ==
    (pc # "start" /\ BothQuietAndVerbose) =>
        /\ raised = (IF SetOnCommandLine("quiet") /\ SetOnCommandLine("verbose")
                     THEN "SystemExit" ELSE "ValueError")
        /\ pc \in {"exit", "raised"}
        /\ NothingStarted

ExclusionsGiven == "exclude_emails" \in DOMAIN args
IsExcluded(c) ==
    /\ c.author_email # NoneS
    /\ \/ c.author_email \in args.exclude_emails
       \/ /\ args.exclude_pattern # NoneS
          /\ \E a \in 1..Len(c.author_email), b \in 1..Len(c.author_email) :
                 SubSeq(c.author_email, a, b) = args.exclude_pattern

QuietRun == pc # "start" /\ raised # "SystemExit" /\ options.quiet
DirectPrintReached ==
    /\ Len(steps) >= 3
    /\ steps[3] = <<"get_commits", "None", "GitHub CI">>

\* C28: in every run in which quiet resolves to true nothing is written to
\* standard output, on any path through main (success, infractions, failed
\* git command, failed HTTP request).
C28_QuietRunPrintsNothing ==
    QuietRun => ~stdout

\* The same on every path but the failed compare request of GitHub.
QuietRunPrintsNothingButOnFailedRequest ==
    (QuietRun /\ ~DirectPrintReached) => ~stdout

RangeReturned == Len(steps) >= 2 /\ steps[2][1] = "get_commit_range" /\ steps[2][2] # "raised"

\* C29: for every retriever get_commit_range returns None or a pair whose
\* base and head are both set; a failed lookup (environment variable, fetch,
\* merge-base, rev-parse HEAD) gives None, never a pair with a missing part.
C29_RangeIsNoneOrFullPair ==
    RangeReturned =>
        \/ commit_range = NoneS
        \/ /\ Len(commit_range) = 2
           /\ commit_range[1] # None
           /\ commit_range[2] # None

\* The same for every retriever but AppVeyor.
RangeIsNoneOrFullPairButAppVeyor ==
    (RangeReturned /\ commit_retriever.name # "AppVeyor") =>
        \/ commit_range = NoneS
        \/ /\ Len(commit_range) = 2
           /\ commit_range[1] # None
           /\ commit_range[2] # None

====
